---- MODULE Spec2Model ----
(***************************************************************************)
(* Model of the d2p orchestration core: the dependency resolver           *)
(* (RUNNERS/dependency_resolver.py), the service orchestrator             *)
(* (MANAGERS/service_orchestrator.py), the per-service process manager    *)
(* and runner (MANAGERS/process_manager.py, RUNNERS/process_runner.py)    *)
(* and the health monitor thread (MANAGERS/health_monitor.py).            *)
(*                                                                         *)
(* Two specifications share the configuration variables:                  *)
(*   SpecResolve  resolve_order applied to every small configuration;     *)
(*   Spec         one up() / down() / ps() cycle of the orchestrator on   *)
(*                the main thread, the monitor thread started by up(),    *)
(*                and the service processes exiting on their own.         *)
(***************************************************************************)
EXTENDS Integers, Sequences, FiniteSets, TLC

(***************************************************************************)
(* Service names.  A configuration holds some of them (config.services is *)
(* a dict: a sequence of distinct keys in insertion order); a name that   *)
(* occurs in a depends_on list without being a key is a dangling          *)
(* reference.                                                              *)
(***************************************************************************)
Names == {"db", "web", "cache"}

NoError == "none"

VARIABLES
    services,       \* config.services keys, in dict (insertion) order
    dependencies,   \* name -> set(svc.depends_on), as the sequence in which the set iterates
    health_check,   \* name -> NoHC or [start_period, timeout, retries]
    restart_policy, \* name -> [condition, max_retries, delay]
    command,        \* name -> TRUE iff entrypoint + cmd is non-empty
    resolved        \* SpecResolve: the outcome of the last resolve_order call

cfgVars == <<services, dependencies, health_check, restart_policy, command>>

VARIABLES
    pc,             \* main thread: position in up() / down() / ps()
    order,          \* `order` of up() and of down(): the resolve_order result
    idx,            \* position of the main thread's loop over its order
    waitElapsed,    \* _wait_for_healthy: time.time() - start_time, counted up to the timeout
    psResult,       \* the dict returned by ps(), or NoPs
    runner,         \* name -> state of ProcessRunner.process and of its OS process
    orphans,        \* name -> live processes of the service the runner no longer refers to
    launches,       \* name -> number of Popen calls that created a process
    running,        \* HealthMonitor.running
    suppc,          \* monitor thread: position in _monitor_loop
    supIdx,         \* monitor thread: position in `for name, manager in self.managers.items()`
    health,         \* HealthMonitor._health: name -> [status, failing_streak, restart_count,
                    \* last_restart]; last_restart is 0 for None, and the time of a restart
                    \* is the number of the restart
    restart_delays, \* HealthMonitor._restart_delays: a dict, name -> delay
    current_delay,  \* _handle_restart: the local current_delay
    monClock,       \* time since the monitor's first pass, counted up to ClockCap
    current_time,   \* _monitor_loop: current_time of the pass, relative to start_times
    held,           \* _monitor_loop: the ServiceHealth that the local `health` refers to when
                    \* _health[name] has been replaced since line 131 read it, or Attached
    backoffLog,     \* name -> [reset, sleeps]: whether _restart_delays[name] has been set to 0,
                    \* and the delays slept before the restarts completed since
    upCalled,       \* services for which up() has called manager.start, in call order
    upReturned,     \* services for which that call has returned
    stopLog         \* services on which down() has called manager.stop, in call order

mainVars == <<pc, order, idx, waitElapsed, psResult>>
procVars == <<runner, orphans, launches>>
monVars == <<running, suppc, supIdx, health, restart_delays, current_delay, monClock,
            current_time, held, backoffLog>>
logVars == <<upCalled, upReturned, stopLog>>
orchVars == <<mainVars, procVars, monVars, logVars>>

VARIABLES
    ports,          \* name -> svc.ports, as the sequence of its items: [container, explicit, host]
    svc_networks,   \* name -> svc.networks
    bound,          \* host ports on which a bind fails: some process of the host holds them
    net,            \* the NetworkManager: its dicts, as the fields of a record
    calls,          \* number of allocate_ports calls made on the NetworkManager
    lastCall        \* the last allocate_ports call: [service, error], or NoCall

netCfgVars == <<ports, svc_networks, bound>>
netVars == <<net, calls, lastCall>>

VARIABLES
    netOps,         \* number of create_network, connect_service, remove_network and
                    \* cleanup calls made on the NetworkManager
    lastIp,         \* the last connect_service call: [network, gateway, ip, raised, again], or NoIp
    issued          \* network -> the addresses connect_service has returned from it since
                    \* it was created and that no removal or cleanup has ended

ipVars == <<netOps, lastIp, issued>>

VARIABLES
    cgroup,         \* a CgroupManager: the name it was given and its fields, or NoCgroup
    host,           \* what the platform offers to the isolation package
    iso,            \* an IsolatedRunner: its configuration, its process and how run() ended
    child,          \* the process that run() spawned
    trace,          \* the steps of the launch, in the order they were made
    vol,            \* a VolumeManager, the index file of its directory and its last
                    \* create_volume call
    discovery       \* the last get_service_discovery_env call: the manager it was made
                    \* on, the names given and the dict returned; or NoEnv

miscVars == <<vol, discovery>>
sysVars == <<cgroup, host, iso, child, trace, miscVars>>

\* The variables that the orchestrator, its monitor and the processes leave
\* alone.
nonOrchVars == <<resolved, netCfgVars, netVars, ipVars, sysVars>>

vars == <<cfgVars, resolved, orchVars, netCfgVars, netVars, ipVars, sysVars>>

(***************************************************************************)
(* Generic helpers.                                                        *)
(***************************************************************************)
Range(s) == {s[i] : i \in 1..Len(s)}

\* An assignment that is lost.
PutNothing(d, k, v) == d

\* d[k] = v of a dict.
Put(d, k, v) == [x \in DOMAIN d \cup {k} |-> IF x = k THEN v ELSE d[x]]

\* Sequences over S without repetition (a set in some iteration order, or
\* the keys of a dict in insertion order).
DistinctSeqs(S) ==
    {q \in UNION {[1..n -> S] : n \in 0..Cardinality(S)} :
        \A i, j \in 1..Len(q) : i # j => q[i] # q[j]}

IndexOf(q, x) == CHOOSE i \in 1..Len(q) : q[i] = x

Reverse(q) == [i \in 1..Len(q) |-> q[Len(q) + 1 - i]]

(***************************************************************************)
(* DependencyResolver.resolve_order: depth-first topological sort with the *)
(* visited / processing marking.  The traversal state is the record       *)
(* [ordered, visited, processing, error]; error is the service named by   *)
(* the "Circular dependency detected" exception, which aborts the whole   *)
(* traversal, or NoError.                                                  *)
(***************************************************************************)
ResolveStart == [ordered |-> <<>>, visited |-> {}, processing |-> {}, error |-> NoError]

\* A resolver that follows no dependency at all.
InServicesNever(svcs, dep) == FALSE

\* `if dep in services` (line 51): only keys of the config are followed.
InServices(svcs, dep) == dep \in Range(svcs)

\* A resolver that returns from visit() where it should raise.
CircularDependencySwallowed(name, st) == st

\* `raise Exception("Circular dependency detected involving {name}")`
\* (line 47).
CircularDependency(name, st) == [st EXCEPT !.error = name]

\* A resolver that records a service before its dependencies.
FinishFront(name, st) ==
    [st EXCEPT !.processing = @ \ {name},
               !.visited = @ \cup {name},
               !.ordered = <<name>> \o @]

\* The bookkeeping after the loop over the dependencies (lines 53-55).
Finish(name, st) ==
    [st EXCEPT !.processing = @ \ {name},
               !.visited = @ \cup {name},
               !.ordered = Append(@, name)]

RECURSIVE visit(_, _, _, _), visitEach(_, _, _, _)
\* visit(name) of lines 42-55.
visit(svcs, deps, name, st) ==
    IF st.error # NoError THEN st
    ELSE IF name \in st.processing THEN CircularDependency(name, st)
    ELSE IF name \notin st.visited
         THEN LET entered == [st EXCEPT !.processing = @ \cup {name}]
                  after == visitEach(svcs, deps, deps[name], entered)
              IN  IF after.error # NoError THEN after ELSE Finish(name, after)
         ELSE st

\* `for dep in dependencies.get(name, [])` (lines 50-52).
visitEach(svcs, deps, todo, st) ==
    IF todo = <<>> \/ st.error # NoError THEN st
    ELSE LET dep == Head(todo)
             next == IF InServices(svcs, dep) THEN visit(svcs, deps, dep, st) ELSE st
         IN  visitEach(svcs, deps, Tail(todo), next)

RECURSIVE visitAll(_, _, _, _)
\* `for name in services: visit(name)` (lines 57-58).
visitAll(svcs, deps, todo, st) ==
    IF todo = <<>> \/ st.error # NoError THEN st
    ELSE visitAll(svcs, deps, Tail(todo), visit(svcs, deps, Head(todo), st))

\* resolve_order(config): [ordered, error]; ordered is returned only when
\* error = NoError.
resolve_order(svcs, deps) ==
    LET st == visitAll(svcs, deps, svcs, ResolveStart)
    IN  [ordered |-> st.ordered, error |-> st.error]

(***************************************************************************)
(* The dependency graph of a configuration, defined without the           *)
(* traversal: an edge from s to d when d is a key of the config and       *)
(* occurs in s's depends_on.                                               *)
(***************************************************************************)
DependsOn(svcs, deps, s, d) ==
    s \in Range(svcs) /\ d \in Range(svcs) /\ d \in Range(deps[s])

\* Pairs connected by a path of at least one edge.
RECURSIVE PathsUpTo(_, _, _)
PathsUpTo(svcs, deps, n) ==
    LET E == {p \in Range(svcs) \X Range(svcs) : DependsOn(svcs, deps, p[1], p[2])}
    IN  IF n <= 1 THEN E
        ELSE LET P == PathsUpTo(svcs, deps, n - 1)
             IN  P \cup {p \in Range(svcs) \X Range(svcs) :
                          \E m \in Range(svcs) : <<p[1], m>> \in P /\ <<m, p[2]>> \in E}

OnCycle(svcs, deps, s) == <<s, s>> \in PathsUpTo(svcs, deps, Len(svcs))

HasCycle(svcs, deps) == \E s \in Range(svcs) : OnCycle(svcs, deps, s)

(***************************************************************************)
(* SpecResolve: every configuration of at most three services, every      *)
(* depends_on set over Names in every iteration order; one call of        *)
(* resolve_order.                                                          *)
(***************************************************************************)
NotResolved == [ordered |-> <<>>, error |-> "pending"]

ResolveCall ==
    /\ resolved = NotResolved
    /\ resolved' = resolve_order(services, dependencies)
    /\ UNCHANGED <<cfgVars, orchVars, netCfgVars, netVars, ipVars, sysVars>>


(***************************************************************************)
(* Bounds of the model.                                                    *)
(***************************************************************************)
\* Popen calls per service that the model follows.
MaxLaunches == 2
\* Restarts counted per service (restart_count) that the model follows.
MaxRestarts == 2
\* Longest health-check failing streak that the model follows.
MaxStreak == 2
\* Largest start_period of a configuration.
MaxStartPeriod == 6
\* Popen calls that the model follows for a service that is monitored alone.
MaxLaunchesAlone == 4

NoHC == [start_period |-> 0, timeout |-> 0, retries |-> 0, defined |-> FALSE]
NoPs == <<>>

\* HealthMonitor.__init__: interval = 5 (the orchestrator passes none).
interval == 5
\* HealthMonitor.__init__: self._max_restart_delay.
max_restart_delay == 300

Min(a, b) == IF a < b THEN a ELSE b

(***************************************************************************)
(* ProcessRunner and ProcessManager.                                      *)
(* A runner is "none" (self.process is None), or refers to a process that *)
(* is "alive", "killed" (SIGKILL sent by stop(), which does not wait for  *)
(* the process to be reaped: poll() may still return None), or has exited *)
(* with status 0 ("exit0") or another status ("exitN", signals included). *)
(***************************************************************************)
\* ProcessRunner.is_running of a runner in state r.
is_running(r) == r \in {"alive", "killed"}

\* ProcessManager.status of a runner in state r.
status(r) ==
    IF is_running(r) THEN "running"
    ELSE IF r = "none" THEN "stopped"
    ELSE IF r = "exit0" THEN "exited(0)" ELSE "exited(n)"

\* Live OS processes of service s.
Live(s) == (IF is_running(runner[s]) THEN 1 ELSE 0) + orphans[s]

\* ProcessManager.start up to and including a successful Popen: a service
\* without command returns before it; otherwise self.process is replaced
\* by the new process, whatever the old one is doing.
Spawned(s) ==
    IF ~command[s] THEN UNCHANGED procVars
    ELSE /\ launches[s] < (IF Len(services) = 1 THEN MaxLaunchesAlone ELSE MaxLaunches)
         /\ runner' = [runner EXCEPT ![s] = "alive"]
         /\ orphans' = [orphans EXCEPT ![s] = @ + (IF is_running(runner[s]) THEN 1 ELSE 0)]
         /\ launches' = [launches EXCEPT ![s] = @ + 1]

\* Popen raises (the command cannot be executed): nothing is created.
SpawnRaises(s) == command[s] /\ UNCHANGED procVars

\* ProcessRunner.stop after terminate(): wait(timeout) on self.process as
\* it is now; on TimeoutExpired kill() and return without waiting.
StopWaited(s) ==
    /\ runner' = [runner EXCEPT ![s] = IF @ = "alive" THEN "killed" ELSE @]
    /\ UNCHANGED <<orphans, launches>>

(***************************************************************************)
(* ServiceOrchestrator.up on the main thread.                              *)
(***************************************************************************)
\* An up() that leaves its loop after the first service.
LoopDoneEarly(i, ord) == i > 1

\* `for name in order` of up() has run through the whole order.
LoopDone(i, ord) == i > Len(ord)

\* _wait_for_healthy: timeout = hc.start_period + hc.timeout * hc.retries.
WaitTimeout(hc) == hc.start_period + (hc.timeout * hc.retries)

\* up(), line 54: resolve the order; the circular-dependency exception
\* leaves up().
Up_Resolve ==
    /\ pc = "idle"
    /\ LET r == resolve_order(services, dependencies)
       IN  IF r.error # NoError
           THEN pc' = "up_failed" /\ UNCHANGED <<order, idx>>
           ELSE pc' = "up_loop" /\ order' = r.ordered /\ idx' = 1
    /\ UNCHANGED <<waitElapsed, psResult, procVars, monVars, logVars, cfgVars, nonOrchVars>>

\* up(), lines 60-63: manager.start(extra_env=discovery_env) is called.
Up_StartCall ==
    /\ pc = "up_loop"
    /\ ~LoopDone(idx, order)
    /\ pc' = "up_starting"
    /\ upCalled' = Append(upCalled, order[idx])
    /\ UNCHANGED <<order, idx, waitElapsed, psResult, procVars, monVars,
                   upReturned, stopLog, cfgVars, nonOrchVars>>

\* ProcessManager.start returns to up(): lines 66-70 choose the wait.
Up_StartReturn ==
    /\ pc = "up_starting"
    /\ LET s == order[idx] IN
        /\ Spawned(s)
        /\ upReturned' = upReturned \cup {s}
        /\ IF health_check[s].defined
           THEN pc' = "up_wait" /\ waitElapsed' = 0
           ELSE pc' = "up_settle" /\ UNCHANGED waitElapsed
    /\ UNCHANGED <<order, idx, psResult, monVars, upCalled, stopLog, cfgVars, nonOrchVars>>

\* Popen raises inside ProcessManager.start: the exception leaves up().
Up_StartRaises ==
    /\ pc = "up_starting"
    /\ SpawnRaises(order[idx])
    /\ pc' = "up_failed"
    /\ UNCHANGED <<order, idx, waitElapsed, psResult, monVars, logVars, cfgVars, nonOrchVars>>

\* _wait_for_healthy, lines 89-96: one turn of the loop.  It returns when
\* the process is running, sleeps one second otherwise, and gives up with
\* a warning once the timeout has elapsed.
Up_WaitIter ==
    /\ pc = "up_wait"
    /\ LET s == order[idx]
           timeout == WaitTimeout(health_check[s])
       IN  IF waitElapsed < timeout /\ status(runner[s]) # "running"
           THEN /\ waitElapsed' = Min(waitElapsed + 1, timeout)
                /\ UNCHANGED <<pc, idx>>
           ELSE /\ pc' = "up_loop"
                /\ idx' = idx + 1
                /\ UNCHANGED waitElapsed
    /\ UNCHANGED <<order, psResult, procVars, monVars, logVars, cfgVars, nonOrchVars>>

\* up(), line 70: time.sleep(1) for a service without health check.
Up_Settle ==
    /\ pc = "up_settle"
    /\ pc' = "up_loop"
    /\ idx' = idx + 1
    /\ UNCHANGED <<order, waitElapsed, psResult, procVars, monVars, logVars, cfgVars, nonOrchVars>>

\* up(), line 72, and HealthMonitor.start: the monitor thread is started.
Up_MonitorStart ==
    /\ pc = "up_loop"
    /\ LoopDone(idx, order)
    /\ pc' = "up_done"
    /\ running' = TRUE
    /\ suppc' = "loop"
    /\ UNCHANGED <<held, backoffLog, order, idx, waitElapsed, psResult, procVars, supIdx, health,
                   restart_delays, current_delay, monClock, current_time, logVars, cfgVars, nonOrchVars>>

(***************************************************************************)
(* ServiceOrchestrator.down and ps on the main thread.                     *)
(***************************************************************************)
\* Positions at which the monitor thread blocks for a second or longer:
\* the interval sleep, the backoff sleep, a health-check command, and the
\* wait of a stop.
Blocking == {"sleep", "backoff", "hc", "restart_stopping"}

\* thread.join(timeout=1) returns: the thread has ended, or a second has
\* passed, which the monitor outlasts only where it blocks.  (Between two
\* blocking calls the monitor runs a few statements; a join that times
\* out there is not followed.)
JoinReturns == suppc \in {"ended", "crashed"} \cup Blocking

\* A down() that stops in start order.
StopOrderForward(ord) == ord

\* `for name in reversed(order)` of down().
StopOrder(ord) == Reverse(ord)

\* down(), line 102, HealthMonitor.stop line 97: self.running = False.
Down_StopMonitor ==
    /\ pc = "up_done"
    /\ pc' = "down_join"
    /\ running' = FALSE
    /\ UNCHANGED <<held, backoffLog, order, idx, waitElapsed, psResult, procVars, suppc, supIdx, health,
                   restart_delays, current_delay, monClock, current_time, logVars, cfgVars, nonOrchVars>>

\* HealthMonitor.stop line 99 returns; down(), lines 103-105: the order is
\* resolved again and reversed.
Down_Resolve ==
    /\ pc = "down_join"
    /\ JoinReturns
    /\ LET r == resolve_order(services, dependencies)
       IN  IF r.error # NoError
           THEN pc' = "down_failed" /\ UNCHANGED <<order, idx>>
           ELSE pc' = "down_loop" /\ order' = StopOrder(r.ordered) /\ idx' = 1
    /\ UNCHANGED <<waitElapsed, psResult, procVars, monVars, logVars, cfgVars, nonOrchVars>>

\* down(), line 107, ProcessRunner.stop lines 91-93: terminate() is sent
\* when there is a process.
Down_StopCall ==
    /\ pc = "down_loop"
    /\ idx <= Len(order)
    /\ pc' = "down_stopping"
    /\ stopLog' = Append(stopLog, order[idx])
    /\ UNCHANGED <<order, idx, waitElapsed, psResult, procVars, monVars,
                   upCalled, upReturned, cfgVars, nonOrchVars>>

\* ProcessRunner.stop lines 94-101: the wait ends, by exit or by kill().
Down_StopReturn ==
    /\ pc = "down_stopping"
    /\ StopWaited(order[idx])
    /\ pc' = "down_loop"
    /\ idx' = idx + 1
    /\ UNCHANGED <<order, waitElapsed, psResult, monVars, logVars, cfgVars, nonOrchVars>>

\* down() returns.
Down_Return ==
    /\ pc = "down_loop"
    /\ idx > Len(order)
    /\ pc' = "down_done"
    /\ UNCHANGED <<order, idx, waitElapsed, psResult, procVars, monVars, logVars, cfgVars, nonOrchVars>>

\* ps(), called after down() has returned.
Ps ==
    /\ pc = "down_done"
    /\ pc' = "ps_done"
    /\ psResult' = [s \in Range(services) |-> status(runner[s])]
    /\ UNCHANGED <<order, idx, waitElapsed, procVars, monVars, logVars, cfgVars, nonOrchVars>>

(***************************************************************************)
(* HealthMonitor._monitor_loop on the monitor thread.                      *)
(***************************************************************************)
\* The service the pass is at: managers is filled in config.services order.
Cur == services[supIdx]

\* HealthMonitor._should_restart, for the runner state r that
\* get_exit_code() reads (None for "none").
should_restart(condition, r) ==
    IF condition = "no" THEN FALSE
    ELSE IF condition = "always" THEN TRUE
    ELSE IF condition = "on-failure" THEN r = "exitN"
    ELSE IF condition = "unless-stopped" THEN TRUE
    ELSE FALSE

\* _handle_restart, line 299: the retries are used up.
RetriesExhausted(policy, h) ==
    policy.max_retries > 0 /\ h.restart_count >= policy.max_retries

\* _handle_restart, lines 306-307.
base_delay(policy) == IF policy.delay > 0 THEN policy.delay ELSE 1

DelayFor(s) ==
    IF s \in DOMAIN restart_delays THEN restart_delays[s] ELSE base_delay(restart_policy[s])

\* A backoff that does not grow.
NextDelayConstant(d) == d

\* _handle_restart, line 326.
NextDelay(d) == Min(d * 2, max_restart_delay)

\* A callback that starts the service whatever its restart policy.
CallbackStartsAlways(condition) == TRUE

\* _handle_service_failure, line 126: the callback starts the service.
CallbackStarts(condition) == condition = "always" \/ condition = "on-failure"

\* The largest start_period of the configuration: the monitor's clock is
\* compared with nothing larger, and is counted up to it.
ClockCap ==
    LET P == {health_check[s].start_period : s \in Range(services)}
    IN  IF P = {} THEN 0 ELSE CHOOSE m \in P : \A x \in P : x <= m

\* Time advances by d for the monitor's clock.
Advance(d) == monClock' = Min(monClock + d, ClockCap)

\* A monitor that never grants the start period.
InStartPeriodNever(elapsed, hc) == FALSE

\* Lines 155-156: `elapsed < hc.start_period`, elapsed being current_time
\* less the start time recorded in the first pass.
InStartPeriod(elapsed, hc) == elapsed < hc.start_period

\* The pass moves on to the next service, or to the interval sleep.
\* No object but the one in _health: a record as no ServiceHealth is.
Attached == [status |-> "attached", failing_streak |-> 0, restart_count |-> 0,
                     last_restart |-> 0]

\* The positions of a pass between line 131 for a service and the next
\* service.
MidService == {"backoff", "restart_stop", "restart_stopping", "restart_start", "hc",
               "callback_dead", "callback_hc"}

\* The object that the local `health` of the pass refers to (lines 131, 296).
Held == IF held = Attached THEN health[Cur] ELSE held

\* The pass moves on to the next service, or to the interval sleep; line
\* 131 reads _health[name] anew.
NextService ==
    /\ held' = Attached
    /\ IF supIdx < Len(services)
       THEN supIdx' = supIdx + 1 /\ suppc' = "check"
       ELSE supIdx' = supIdx /\ suppc' = "sleep"

\* `health.<field> = ...` through the local reference: h is the object with
\* the fields assigned.  _health changes only if it still holds the object.
Assign(s, h) ==
    IF held = Attached THEN health' = [health EXCEPT ![s] = h] ELSE UNCHANGED health

SetStatus(s, st) == Assign(s, [Held EXCEPT !.status = st])

\* `while self.running` (line 124): a new pass begins, or the thread ends.
\* start_times is filled in the first pass, for every service at once.
Sup_LoopTest ==
    /\ suppc = "loop"
    /\ IF running
       THEN /\ current_time' = monClock
            /\ supIdx' = 1
            /\ suppc' = IF Len(services) > 0 THEN "check" ELSE "sleep"
       ELSE suppc' = "ended" /\ UNCHANGED <<current_time, supIdx>>
    /\ UNCHANGED <<held, backoffLog, running, health, restart_delays, current_delay, monClock,
                   mainVars, procVars, logVars, cfgVars, nonOrchVars>>

\* Lines 131-158 for one service, up to the first blocking call.
Sup_Check ==
    /\ suppc = "check"
    /\ LET s == Cur
           hc == health_check[s]
           policy == restart_policy[s]
       IN  IF ~is_running(runner[s])
           THEN IF should_restart(policy.condition, runner[s])
                THEN IF RetriesExhausted(policy, health[s])
                     THEN \* _handle_restart returns at line 303
                          SetStatus(s, "unhealthy") /\ NextService
                              /\ UNCHANGED current_delay
                     ELSE /\ health[s].restart_count < MaxRestarts
                          /\ current_delay' = DelayFor(s)
                          /\ suppc' = IF DelayFor(s) > 0 THEN "backoff" ELSE "restart_stop"
                          /\ UNCHANGED <<supIdx, health, held>>
                ELSE suppc' = "callback_dead" /\ UNCHANGED <<supIdx, health, current_delay, held>>
           ELSE IF ~hc.defined
                THEN SetStatus(s, "none") /\ NextService /\ UNCHANGED current_delay
           ELSE IF InStartPeriod(current_time, hc)
                THEN SetStatus(s, "starting") /\ NextService /\ UNCHANGED current_delay
           ELSE suppc' = "hc" /\ UNCHANGED <<supIdx, health, current_delay, held>>
    /\ UNCHANGED <<backoffLog, running, restart_delays, monClock, current_time,
                   mainVars, procVars, logVars, cfgVars, nonOrchVars>>

\* _handle_restart, line 312: time.sleep(current_delay) is over.
Sup_BackoffWake ==
    /\ suppc = "backoff"
    /\ suppc' = "restart_stop"
    /\ Advance(current_delay)
    /\ UNCHANGED <<held, backoffLog, running, supIdx, health, restart_delays, current_delay, current_time,
                   mainVars, procVars, logVars, cfgVars, nonOrchVars>>

\* _handle_restart, line 317: manager.stop() is called.
Sup_RestartStopCall ==
    /\ suppc = "restart_stop"
    /\ suppc' = "restart_stopping"
    /\ UNCHANGED <<held, backoffLog, running, supIdx, health, restart_delays, current_delay, monClock,
                   current_time, mainVars, procVars, logVars, cfgVars, nonOrchVars>>

\* manager.stop() returns.
Sup_RestartStopReturn ==
    /\ suppc = "restart_stopping"
    /\ StopWaited(Cur)
    /\ suppc' = "restart_start"
    /\ UNCHANGED <<held, backoffLog, running, supIdx, health, restart_delays, current_delay, monClock,
                   current_time, mainVars, logVars, cfgVars, nonOrchVars>>

\* _handle_restart, lines 317 and 328-329: manager.stop() raises and the
\* exception is swallowed; then line 146.
Sup_RestartStopRaises ==
    /\ suppc = "restart_stopping"
    /\ SetStatus(Cur, "unhealthy")
    /\ NextService
    /\ UNCHANGED <<backoffLog, running, restart_delays, current_delay, monClock, current_time,
                   mainVars, procVars, logVars, cfgVars, nonOrchVars>>

\* _handle_restart, lines 318-326: manager.start() succeeds; then line 146.
Sup_RestartStart ==
    /\ suppc = "restart_start"
    /\ Spawned(Cur)
    /\ Assign(Cur, [Held EXCEPT !.restart_count = @ + 1,
                                !.last_restart = Held.restart_count + 1,
                                !.status = "unhealthy"])
    /\ restart_delays' = [x \in DOMAIN restart_delays \cup {Cur} |->
                            IF x = Cur THEN NextDelay(current_delay) ELSE restart_delays[x]]
    /\ backoffLog' = [backoffLog EXCEPT ![Cur].sleeps = Append(@, current_delay)]
    /\ NextService
    /\ UNCHANGED <<running, current_delay, monClock, current_time,
                   mainVars, logVars, cfgVars, nonOrchVars>>

\* A restart that is counted although manager.start() raised.
Sup_RestartRaisesCounted ==
    /\ suppc = "restart_start"
    /\ SpawnRaises(Cur)
    /\ Assign(Cur, [Held EXCEPT !.restart_count = @ + 1, !.status = "unhealthy"])
    /\ NextService
    /\ UNCHANGED <<backoffLog, running, restart_delays, current_delay, monClock, current_time,
                   mainVars, logVars, cfgVars, nonOrchVars>>

\* _handle_restart, lines 328-329: manager.start() raises and the
\* exception is swallowed; then line 146.
Sup_RestartRaises ==
    /\ suppc = "restart_start"
    /\ SpawnRaises(Cur)
    /\ SetStatus(Cur, "unhealthy")
    /\ NextService
    /\ UNCHANGED <<backoffLog, running, restart_delays, current_delay, monClock, current_time,
                   mainVars, logVars, cfgVars, nonOrchVars>>

\* self.on_failure(name), that is _handle_service_failure, returns.  It is
\* called at line 144 for a process that is not running ("callback_dead",
\* followed by line 146) and at line 183 after a failed check
\* ("callback_hc").
Sup_Callback ==
    /\ suppc \in {"callback_dead", "callback_hc"}
    /\ IF CallbackStarts(restart_policy[Cur].condition)
       THEN Spawned(Cur)
       ELSE UNCHANGED procVars
    /\ IF suppc = "callback_dead" THEN SetStatus(Cur, "unhealthy") ELSE UNCHANGED health
    /\ NextService
    /\ UNCHANGED <<backoffLog, running, restart_delays, current_delay, monClock, current_time,
                   mainVars, logVars, cfgVars, nonOrchVars>>

\* manager.start() raises inside the callback: nothing catches it in
\* _monitor_loop, and the thread dies.
Sup_CallbackRaises ==
    /\ suppc \in {"callback_dead", "callback_hc"}
    /\ CallbackStarts(restart_policy[Cur].condition)
    /\ SpawnRaises(Cur)
    /\ suppc' = "crashed"
    /\ UNCHANGED <<held, backoffLog, running, supIdx, health, restart_delays, current_delay, monClock,
                   current_time, mainVars, logVars, cfgVars, nonOrchVars>>

\* A threshold that is met at the first crossing only.
ExceededRetriesOnce(failing_streak, hc) == failing_streak = hc.retries

\* Line 178: health.failing_streak >= hc.retries
ExceededRetries(failing_streak, hc) == failing_streak >= hc.retries

\* Lines 161-185: _run_health_check has returned with success = ok.
Sup_HealthChecked(ok) ==
    /\ suppc = "hc"
    /\ LET s == Cur IN
       IF ok
       THEN /\ Assign(s, [Held EXCEPT !.status = "healthy", !.failing_streak = 0])
            /\ restart_delays' = Put(restart_delays, s, 0)
            /\ backoffLog' = [backoffLog EXCEPT ![s] = [reset |-> TRUE, sleeps |-> <<>>]]
            /\ NextService
       ELSE /\ Held.failing_streak < MaxStreak
            /\ LET h == [Held EXCEPT !.status = "unhealthy", !.failing_streak = @ + 1]
               IN  /\ Assign(s, h)
                   /\ IF ExceededRetries(h.failing_streak, health_check[s])
                      THEN /\ suppc' = "callback_hc"
                           /\ held' = IF held = Attached THEN Attached ELSE h
                           /\ UNCHANGED supIdx
                      ELSE NextService
            /\ UNCHANGED <<restart_delays, backoffLog>>
    /\ UNCHANGED <<running, current_delay, monClock, current_time,
                   mainVars, procVars, logVars, cfgVars, nonOrchVars>>

\* Line 187: time.sleep(self.interval) is over.
Sup_Sleep ==
    /\ suppc = "sleep"
    /\ suppc' = "loop"
    /\ Advance(interval)
    /\ UNCHANGED <<held, backoffLog, running, supIdx, health, restart_delays, current_delay, current_time,
                   mainVars, procVars, logVars, cfgVars, nonOrchVars>>

\* HealthMonitor.reset_health(name), called on another thread than the
\* monitor's: nothing in HealthMonitor is locked.  A pass that is at the
\* service, past line 131, keeps the object that _health held.
ResetHealth(s) ==
    /\ running
    /\ health' = [health EXCEPT ![s] = [status |-> "none", failing_streak |-> 0,
                                        restart_count |-> 0, last_restart |-> 0]]
    /\ restart_delays' = Put(restart_delays, s, 0)
    /\ backoffLog' = [backoffLog EXCEPT ![s] = [reset |-> TRUE, sleeps |-> <<>>]]
    /\ held' = IF s = Cur /\ suppc \in MidService /\ held = Attached THEN health[s] ELSE held
    /\ UNCHANGED <<running, suppc, supIdx, current_delay, monClock, current_time,
                   mainVars, procVars, logVars, cfgVars, nonOrchVars>>

(***************************************************************************)
(* The service processes.                                                  *)
(***************************************************************************)
\* The process of the runner exits on its own, or on SIGTERM.
ProcExit(s, code) ==
    /\ runner[s] = "alive"
    /\ runner' = [runner EXCEPT ![s] = code]
    /\ UNCHANGED <<orphans, launches, mainVars, monVars, logVars, cfgVars, nonOrchVars>>

\* A killed process is gone.
ProcDie(s) ==
    /\ runner[s] = "killed"
    /\ runner' = [runner EXCEPT ![s] = "exitN"]
    /\ UNCHANGED <<orphans, launches, mainVars, monVars, logVars, cfgVars, nonOrchVars>>

\* A process that the runner no longer refers to exits.
OrphanExit(s) ==
    /\ orphans[s] > 0
    /\ orphans' = [orphans EXCEPT ![s] = @ - 1]
    /\ UNCHANGED <<runner, launches, mainVars, monVars, logVars, cfgVars, nonOrchVars>>

(***************************************************************************)
(* NetworkManager.  Its dicts are functions whose DOMAIN is the set of    *)
(* keys; an IPv4 address is the tuple of its four octets, which is what   *)
(* the dotted string of the code lists.                                    *)
(***************************************************************************)
\* Largest host port number of the model; ports are 1..MaxPort.
MaxPort == 3
\* allocate_ports calls that the model follows.
MaxCalls == 3

HostPorts == 1..MaxPort

\* The ports from which the kernel serves bind(('', 0)): the ephemeral
\* range, here every port but the lowest.
EphemeralPorts == 2..MaxPort

NoAddress == <<>>
Loopback == <<127, 0, 0, 1>>
NoSubnet == [base |-> <<0, 0, 0, 0>>, prefix |-> 0, defined |-> FALSE]

\* NetworkConfig(name=network_name) of connect_service, line 135.
BareNetwork == [subnet |-> NoSubnet, gateway |-> NoAddress]

\* The default network of __init__, line 78.
default_network == "d2p_default"
DefaultNetwork ==
    [subnet |-> [base |-> <<172, 28, 0, 0>>, prefix |-> 16, defined |-> TRUE],
     gateway |-> <<172, 28, 0, 1>>]

NoPortError == [port |-> 0, service |-> "none"]
NoCall == [service |-> "none", error |-> NoPortError]

\* A create_network that does not reserve the gateway.
create_network_unreserved(nm, name, config) ==
    IF name \in DOMAIN nm.networks THEN nm
    ELSE [nm EXCEPT !.networks = Put(@, name, config),
                    !.allocated_ips = Put(@, name, {})]

\* NetworkManager.create_network.
create_network(nm, name, config) ==
    IF name \in DOMAIN nm.networks THEN nm
    ELSE [nm EXCEPT !.networks = Put(@, name, config),
                    !.allocated_ips = Put(@, name, IF config.gateway # NoAddress
                                                   THEN {config.gateway} ELSE {})]

\* NetworkManager.__init__.
NetworkManagerNew ==
    create_network([service_ports |-> <<>>, host_port_to_service |-> <<>>,
                    networks |-> <<>>, allocated_ips |-> <<>>,
                    service_networks |-> <<>>, dns_entries |-> <<>>],
                   default_network, DefaultNetwork)

RECURSIVE Pow2(_)
Pow2(n) == IF n = 0 THEN 1 ELSE 2 * Pow2(n - 1)

\* Lines 178-188: the dotted form of base_int + offset.  The first octet
\* is (ip_int >> 24) & 0xFF, the others are the three low bytes.
AddrPlus(base, offset) ==
    LET low == (base[2] * 65536) + (base[3] * 256) + base[4] + offset
        l == low % 16777216
    IN  <<(base[1] + (low \div 16777216)) % 256, l \div 65536, (l \div 256) % 256, l % 256>>

\* A search that takes the first offset whether or not it is taken.
FirstFreeOffsetBlind(base, taken, off, last) == IF off > last THEN 0 ELSE off

\* Lines 186-192: the first offset of range(off, last + 1) whose address
\* is not taken, or 0.
RECURSIVE FirstFreeOffset(_, _, _, _)
FirstFreeOffset(base, taken, off, last) ==
    IF off > last THEN 0
    ELSE IF AddrPlus(base, off) \notin taken THEN off
    ELSE FirstFreeOffset(base, taken, off + 1, last)

\* self._allocated_ips.get(network_name, set()), line 190.
TakenIn(nm, network) ==
    IF network \in DOMAIN nm.allocated_ips THEN nm.allocated_ips[network] ELSE {}

\* NetworkManager._allocate_ip: [nm, ip, raised].  ip is NoAddress for the
\* return value None.  raised: line 191 raises KeyError, which the except
\* clause of line 194 does not catch, when cleanup() has cleared
\* _allocated_ips and the network is still in self.networks.
allocate_ip(nm, network) ==
    IF network \notin DOMAIN nm.networks
    THEN [nm |-> nm, ip |-> NoAddress, raised |-> FALSE]
    ELSE LET subnet == nm.networks[network].subnet IN
         IF ~subnet.defined THEN [nm |-> nm, ip |-> Loopback, raised |-> FALSE]
         ELSE LET num_ips == Pow2(32 - subnet.prefix) - 2
                  off == FirstFreeOffset(subnet.base, TakenIn(nm, network), 2, num_ips + 1)
                  ip == AddrPlus(subnet.base, off)
              IN  IF off = 0 THEN [nm |-> nm, ip |-> Loopback, raised |-> FALSE]
                  ELSE IF network \notin DOMAIN nm.allocated_ips
                  THEN [nm |-> nm, ip |-> NoAddress, raised |-> TRUE]
                  ELSE [nm |-> [nm EXCEPT !.allocated_ips[network] = @ \cup {ip}],
                        ip |-> ip, raised |-> FALSE]

\* Lines 156-158: the DNS entries of the service and of its aliases.
RECURSIVE PutAll(_, _, _)
PutAll(d, keys, v) ==
    IF keys = <<>> THEN d ELSE PutAll(Put(d, Head(keys), v), Tail(keys), v)

\* connect_service, lines 133-135: the network is created if it does not
\* exist.
ensure_network(nm, network_name) ==
    IF network_name \notin DOMAIN nm.networks
    THEN create_network(nm, network_name, BareNetwork) ELSE nm

\* connect_service, line 138: what _allocate_ip returns or raises.
connect_result(nm, network_name) ==
    allocate_ip(ensure_network(nm, network_name), network_name)

\* NetworkManager.connect_service: the manager it leaves, whether it
\* returns the address, returns None or lets the KeyError pass.
connect_service(nm, service_name, network_name, aliases) ==
    LET r == connect_result(nm, network_name)
    IN  IF r.ip = NoAddress THEN r.nm
        ELSE [r.nm EXCEPT
                !.service_networks =
                    IF service_name \notin DOMAIN @
                    THEN Put(@, service_name, [networks |-> <<network_name>>,
                                               ip_address |-> r.ip,
                                               aliases |-> aliases])
                    ELSE [@ EXCEPT ![service_name].networks = Append(@, network_name)],
                !.dns_entries = PutAll(Put(@, service_name, r.ip), aliases, r.ip)]

\* A port check that finds every port free.
is_port_free_always(port, bnd) == TRUE

\* port_finder.is_port_free: the bind on the port succeeds.
is_port_free(port, bnd) == port \notin bnd

\* port_finder.get_free_port: the ports the kernel may hand out.
get_free_port(bnd) == EphemeralPorts \ bnd

\* allocate_ports, lines 206-220: the loop over service_def.ports from
\* item i on.  dyn[i] is the port the kernel hands out for item i.
RECURSIVE AllocLoop(_, _, _, _, _, _, _)
AllocLoop(nm, name, items, i, mappings, bnd, dyn) ==
    IF i > Len(items) THEN [nm |-> nm, mappings |-> mappings, error |-> NoPortError]
    ELSE LET item == items[i] IN
         IF item.explicit /\ ~is_port_free(item.host, bnd)
         THEN [nm |-> nm, mappings |-> mappings,
               error |-> [port |-> item.host, service |-> name]]
         ELSE LET allocated_port == IF item.explicit THEN item.host ELSE dyn[i]
              IN  AllocLoop([nm EXCEPT !.host_port_to_service = Put(@, allocated_port, name)],
                            name, items, i + 1,
                            Put(mappings, item.container, allocated_port), bnd, dyn)

\* The KeyError of _allocate_ip, as the error of an allocate_ports call.
KeyErrorRaised == [port |-> 0, service |-> "KeyError"]

\* allocate_ports, lines 225-227: [nm, error].  The loop ends where
\* connect_service lets the KeyError pass.
RECURSIVE ConnectAll(_, _, _)
ConnectAll(nm, name, nets) ==
    IF nets = <<>> THEN [nm |-> nm, error |-> NoPortError]
    ELSE LET after == connect_service(nm, name, Head(nets), <<name>>) IN
         IF connect_result(nm, Head(nets)).raised
         THEN [nm |-> after, error |-> KeyErrorRaised]
         ELSE ConnectAll(after, name, Tail(nets))

\* NetworkManager.allocate_ports: [nm, error].  When the RuntimeError is
\* raised, the entries of host_port_to_service made so far stay.
allocate_ports(nm, name, items, nets, bnd, dyn) ==
    LET r == AllocLoop(nm, name, items, 1, <<>>, bnd, dyn) IN
    IF r.error # NoPortError THEN [nm |-> r.nm, error |-> r.error]
    ELSE ConnectAll([r.nm EXCEPT !.service_ports = Put(@, name, r.mappings)],
                    name, IF nets = <<>> THEN <<default_network>> ELSE nets)

\* One allocate_ports call for service s.
AllocatePorts(s) ==
    /\ calls < MaxCalls
    /\ \E dyn \in [1..Len(ports[s]) -> get_free_port(bound)] :
          LET r == allocate_ports(net, s, ports[s], svc_networks[s], bound, dyn)
          IN  /\ net' = r.nm
              /\ lastCall' = [service |-> s, error |-> r.error]
    /\ calls' = calls + 1
    /\ UNCHANGED <<netCfgVars, cfgVars, resolved, orchVars, ipVars, sysVars>>

\* del d[k] of a dict.
Del(d, k) == [x \in DOMAIN d \ {k} |-> d[x]]

\* NetworkManager.remove_network.
remove_network(nm, name) ==
    IF name \in DOMAIN nm.networks
    THEN [nm EXCEPT !.networks = Del(@, name), !.allocated_ips = Del(@, name)]
    ELSE nm

\* NetworkManager.cleanup: every dict but self.networks is cleared.
cleanup(nm) ==
    [nm EXCEPT !.service_ports = <<>>, !.host_port_to_service = <<>>,
               !.service_networks = <<>>, !.dns_entries = <<>>,
               !.allocated_ips = <<>>]

\* create_network, connect_service, remove_network and cleanup calls that
\* the model follows.
MaxNetOps == 4

NoIp == [network |-> "none", gateway |-> NoAddress, ip |-> NoAddress,
         raised |-> FALSE, again |-> FALSE]

IssuedIn(n) == IF n \in DOMAIN issued THEN issued[n] ELSE {}

NoCgroup == [given |-> <<>>, name |-> <<>>, initialized |-> FALSE]

\* No create_network, connect_service, remove_network or cleanup call was
\* made.
NoIpLog ==
    /\ netOps = 0
    /\ lastIp = NoIp
    /\ issued = <<>>

NoHost ==
    [is_linux |-> FALSE, libc |-> FALSE, is_root |-> FALSE,
     user_ns_enabled |-> FALSE, cgroup_v2 |-> FALSE]

NoRunner ==
    [namespaces |-> {}, process |-> "none", isolation_active |-> FALSE,
     launch |-> "none", effective |-> {}]

NoChild ==
    [state |-> "none", image |-> "none", in_cgroup |-> FALSE, write_failed |-> FALSE,
     ns_flags |-> {}, unshared |-> {}]

NoVolume == [name |-> "none", path |-> <<>>, driver |-> "none", created_at |-> 0, labels |-> {}]

NoCreate ==
    [name |-> "none", driver |-> "none", existed |-> FALSE, before |-> NoVolume,
     returned |-> NoVolume, stored |-> NoVolume, indexed |-> NoVolume]

NoVolumes == [volumes |-> <<>>, has_index |-> FALSE, index |-> <<>>, clock |-> 0, last |-> NoCreate]

NoEnv == [nm |-> <<>>, names |-> <<>>, env |-> <<>>]

\* No VolumeManager exists and get_service_discovery_env was not called.
MiscIdle ==
    /\ vol = NoVolumes
    /\ discovery = NoEnv

\* No object of the isolation package exists.
SysIdle ==
    /\ cgroup = NoCgroup
    /\ host = NoHost
    /\ iso = NoRunner
    /\ child = NoChild
    /\ trace = <<>>
    /\ MiscIdle

\* One create_network call.
CreateNetwork(name, config) ==
    /\ netOps < MaxNetOps
    /\ net' = create_network(net, name, config)
    /\ netOps' = netOps + 1
    /\ UNCHANGED <<lastIp, issued, calls, lastCall, netCfgVars, cfgVars, resolved, orchVars, sysVars>>

\* One connect_service call.
ConnectService(s, n, aliases) ==
    /\ netOps < MaxNetOps
    /\ LET r == connect_result(net, n) IN
        /\ net' = connect_service(net, s, n, aliases)
        /\ lastIp' = [network |-> n,
                      gateway |-> ensure_network(net, n).networks[n].gateway,
                      ip |-> r.ip, raised |-> r.raised,
                      again |-> r.ip \in IssuedIn(n)]
        /\ issued' = IF r.ip = NoAddress THEN issued
                     ELSE Put(issued, n, IssuedIn(n) \cup {r.ip})
    /\ netOps' = netOps + 1
    /\ UNCHANGED <<calls, lastCall, netCfgVars, cfgVars, resolved, orchVars, sysVars>>

\* One remove_network call.
RemoveNetwork(n) ==
    /\ netOps < MaxNetOps
    /\ net' = remove_network(net, n)
    /\ issued' = Del(issued, n)
    /\ netOps' = netOps + 1
    /\ UNCHANGED <<lastIp, calls, lastCall, netCfgVars, cfgVars, resolved, orchVars, sysVars>>

\* One cleanup call.
Cleanup ==
    /\ netOps < MaxNetOps
    /\ net' = cleanup(net)
    /\ issued' = <<>>
    /\ netOps' = netOps + 1
    /\ UNCHANGED <<lastIp, calls, lastCall, netCfgVars, cfgVars, resolved, orchVars, sysVars>>

\* ServiceOrchestrator.__init__, lines 43-46, for services without ports:
\* allocate_ports for each service in config order.
RECURSIVE Construct(_, _)
Construct(nm, todo) ==
    IF todo = <<>> THEN nm
    ELSE Construct(allocate_ports(nm, Head(todo), <<>>, <<>>, {}, <<>>).nm, Tail(todo))

\* The network state of an orchestrator whose services declare neither
\* ports nor networks.
NetConstructed ==
    /\ ports = [s \in Range(services) |-> <<>>]
    /\ svc_networks = [s \in Range(services) |-> <<>>]
    /\ bound = {}
    /\ net = Construct(NetworkManagerNew, services)
    /\ calls = Len(services)
    /\ lastCall = IF services = <<>> THEN NoCall
                  ELSE [service |-> services[Len(services)], error |-> NoPortError]
    /\ NoIpLog
    /\ SysIdle

(***************************************************************************)
(* Configurations.                                                         *)
(***************************************************************************)
\* RestartPolicy() and health_check = None of ServiceDefinition.
DefaultPolicy == [condition |-> "no", max_retries |-> 0, delay |-> 0]

Conditions == {"no", "always", "on-failure", "unless-stopped"}

Policies == [condition : Conditions, max_retries : {0, 1}, delay : {0}]

HealthChecks ==
    {NoHC,
     [start_period |-> 0, timeout |-> 1, retries |-> 1, defined |-> TRUE],
     [start_period |-> MaxStartPeriod, timeout |-> 1, retries |-> 2, defined |-> TRUE]}

\* The state of the orchestrator, its managers and its monitor after
\* ServiceOrchestrator.__init__.
OrchInit ==
    /\ pc = "idle"
    /\ order = <<>>
    /\ idx = 1
    /\ waitElapsed = 0
    /\ psResult = NoPs
    /\ runner = [s \in Range(services) |-> "none"]
    /\ orphans = [s \in Range(services) |-> 0]
    /\ launches = [s \in Range(services) |-> 0]
    /\ running = FALSE
    /\ suppc = "off"
    /\ supIdx = 1
    /\ health = [s \in Range(services) |->
                    [status |-> "none", failing_streak |-> 0, restart_count |-> 0,
                     last_restart |-> 0]]
    /\ restart_delays = <<>>
    /\ current_delay = 0
    /\ monClock = 0
    /\ current_time = 0
    /\ held = Attached
    /\ backoffLog = [s \in Range(services) |-> [reset |-> FALSE, sleeps |-> <<>>]]
    /\ upCalled = <<>>
    /\ upReturned = {}
    /\ stopLog = <<>>

(***************************************************************************)
(* SpecResolve.                                                            *)
(***************************************************************************)
InitResolve ==
    /\ services \in DistinctSeqs(Names)
    /\ dependencies \in [Range(services) -> DistinctSeqs(Names)]
    /\ health_check = [s \in Range(services) |-> NoHC]
    /\ restart_policy = [s \in Range(services) |-> DefaultPolicy]
    /\ command = [s \in Range(services) |-> TRUE]
    /\ resolved = NotResolved
    /\ OrchInit
    /\ NetConstructed

NextResolve == ResolveCall

SpecResolve == InitResolve /\ [][NextResolve]_vars

(***************************************************************************)
(* Spec: configurations of the two services db and web, in this dict      *)
(* order.  db may depend on web; web may depend on db or on cache, which  *)
(* is not configured.  web has any restart policy, health check and       *)
(* command; db has the defaults of ServiceDefinition and a command.       *)
(***************************************************************************)
OrchServices == <<"db", "web">>

OrchDependsOn(s) ==
    IF s = "db" THEN {<<>>, <<"web">>} ELSE {<<>>, <<"db">>, <<"cache">>}

Init ==
    /\ services = OrchServices
    /\ dependencies \in {d \in [Range(services) -> DistinctSeqs(Names)] :
                            \A s \in Range(services) : d[s] \in OrchDependsOn(s)}
    /\ health_check \in {h \in [Range(services) -> HealthChecks] : h["db"] = NoHC}
    /\ restart_policy \in {r \in [Range(services) -> Policies] : r["db"] = DefaultPolicy}
    /\ command \in {c \in [Range(services) -> BOOLEAN] : c["db"]}
    /\ resolved = NotResolved
    /\ OrchInit
    /\ NetConstructed

MainNext ==
    \/ Up_Resolve
    \/ Up_StartCall
    \/ Up_StartReturn
    \/ Up_StartRaises
    \/ Up_WaitIter
    \/ Up_Settle
    \/ Up_MonitorStart
    \/ Down_StopMonitor
    \/ Down_Resolve
    \/ Down_StopCall
    \/ Down_StopReturn
    \/ Down_Return
    \/ Ps

MonitorNext ==
    \/ Sup_LoopTest
    \/ Sup_Check
    \/ Sup_BackoffWake
    \/ Sup_RestartStopCall
    \/ Sup_RestartStopReturn
    \/ Sup_RestartStopRaises
    \/ Sup_RestartStart
    \/ Sup_RestartRaises
    \/ Sup_Callback
    \/ Sup_CallbackRaises
    \/ \E ok \in BOOLEAN : Sup_HealthChecked(ok)
    \/ Sup_Sleep

ProcNext ==
    \/ \E s \in Range(services), code \in {"exit0", "exitN"} : ProcExit(s, code)
    \/ \E s \in Range(services) : ProcDie(s)
    \/ \E s \in Range(services) : OrphanExit(s)

Next == MainNext \/ MonitorNext \/ ProcNext

Spec == Init /\ [][Next]_vars

(***************************************************************************)
(* SpecMonitor: the monitor thread and the process of one service, web,   *)
(* from the return of up() on, while down() is not called.  The restart   *)
(* policy has any condition, up to two retries or no limit, and a delay   *)
(* that is absent, below the cap or above it.                              *)
(***************************************************************************)
MonitoredServices == <<"web">>

Delays == {0, 200, 400}

MonitoredPolicies == [condition : Conditions, max_retries : {0, 1, 2}, delay : Delays]

\* The state in which up() returns for the configuration of the one
\* service: it has been launched, and the monitor thread has been started.
InitMonitor ==
    /\ services = MonitoredServices
    /\ dependencies = [s \in Range(services) |-> <<>>]
    /\ health_check \in [Range(services) -> HealthChecks]
    /\ restart_policy \in [Range(services) -> MonitoredPolicies]
    /\ command = [s \in Range(services) |-> TRUE]
    /\ resolved = NotResolved
    /\ pc = "up_done"
    /\ order = services
    /\ idx = Len(services) + 1
    /\ waitElapsed = 0
    /\ psResult = NoPs
    /\ runner = [s \in Range(services) |-> "alive"]
    /\ orphans = [s \in Range(services) |-> 0]
    /\ launches = [s \in Range(services) |-> 1]
    /\ running = TRUE
    /\ suppc = "loop"
    /\ supIdx = 1
    /\ health = [s \in Range(services) |->
                    [status |-> "none", failing_streak |-> 0, restart_count |-> 0,
                     last_restart |-> 0]]
    /\ restart_delays = <<>>
    /\ current_delay = 0
    /\ monClock = 0
    /\ current_time = 0
    /\ held = Attached
    /\ backoffLog = [s \in Range(services) |-> [reset |-> FALSE, sleeps |-> <<>>]]
    /\ upCalled = services
    /\ upReturned = Range(services)
    /\ stopLog = <<>>
    /\ NetConstructed

NextMonitor ==
    \/ MonitorNext
    \/ \E s \in Range(services), code \in {"exit0", "exitN"} : ProcExit(s, code)
    \/ \E s \in Range(services) : OrphanExit(s)

SpecMonitor == InitMonitor /\ [][NextMonitor]_vars

(***************************************************************************)
(* SpecReset: SpecMonitor with reset_health called from another thread at  *)
(* any moment.                                                             *)
(***************************************************************************)
NextReset ==
    \/ NextMonitor
    \/ \E s \in Range(services) : ResetHealth(s)

SpecReset == InitMonitor /\ [][NextReset]_vars

(***************************************************************************)
(* SpecPorts: allocate_ports calls on a new NetworkManager, for the two   *)
(* services db and web in any order and more than once.  db declares at   *)
(* most one container port and web at most two, each with an explicit     *)
(* host port or with none; web may declare a network of its own.  Any set *)
(* of host ports that leaves an ephemeral port free is held by other      *)
(* processes.                                                              *)
(***************************************************************************)
PortServices == <<"db", "web">>

\* The items of svc.ports for container port c: host port None, or any
\* explicit host port.
Requests(c) ==
    {[container |-> c, explicit |-> FALSE, host |-> 0]}
        \cup {[container |-> c, explicit |-> TRUE, host |-> h] : h \in HostPorts}

PortConfigs ==
    {<<>>} \cup {<<a>> : a \in Requests(80)}
           \cup {<<a, b>> : a \in Requests(80), b \in Requests(443)}

InitPorts ==
    /\ services = PortServices
    /\ dependencies = [s \in Range(services) |-> <<>>]
    /\ health_check = [s \in Range(services) |-> NoHC]
    /\ restart_policy = [s \in Range(services) |-> DefaultPolicy]
    /\ command = [s \in Range(services) |-> TRUE]
    /\ resolved = NotResolved
    /\ OrchInit
    /\ ports \in {q \in [Range(services) -> PortConfigs] : Len(q["db"]) <= 1}
    /\ svc_networks \in {n \in [Range(services) -> {<<>>, <<"backend">>}] : n["db"] = <<>>}
    /\ bound \in {b \in SUBSET HostPorts : get_free_port(b) # {}}
    /\ net = NetworkManagerNew
    /\ calls = 0
    /\ lastCall = NoCall
    /\ NoIpLog
    /\ SysIdle

NextPorts == \E s \in Range(services) : AllocatePorts(s)

SpecPorts == InitPorts /\ [][NextPorts]_vars

(***************************************************************************)
(* SpecNet: create_network, connect_service, remove_network and cleanup   *)
(* calls on a new NetworkManager, in any order.  Besides the default      *)
(* network there are the networks front and back, created with or without *)
(* a subnet of two host addresses and with no gateway or with a gateway   *)
(* in the subnet, or created bare by connect_service.                     *)
(***************************************************************************)
NetNames == {default_network, "front", "back"}

NetworkConfigs ==
    [subnet : {NoSubnet, [base |-> <<10, 0, 0, 0>>, prefix |-> 30, defined |-> TRUE]},
     gateway : {NoAddress, <<10, 0, 0, 1>>, <<10, 0, 0, 2>>}]

InitNet ==
    /\ services = PortServices
    /\ dependencies = [s \in Range(services) |-> <<>>]
    /\ health_check = [s \in Range(services) |-> NoHC]
    /\ restart_policy = [s \in Range(services) |-> DefaultPolicy]
    /\ command = [s \in Range(services) |-> TRUE]
    /\ resolved = NotResolved
    /\ OrchInit
    /\ ports = [s \in Range(services) |-> <<>>]
    /\ svc_networks = [s \in Range(services) |-> <<>>]
    /\ bound = {}
    /\ net = NetworkManagerNew
    /\ calls = 0
    /\ lastCall = NoCall
    /\ NoIpLog
    /\ SysIdle

NextNet ==
    \/ \E name \in NetNames \ {default_network}, config \in NetworkConfigs :
          CreateNetwork(name, config)
    \/ \E s \in Range(services), n \in NetNames :
          \E aliases \in {<<>>, <<s>>} : ConnectService(s, n, aliases)
    \/ \E n \in NetNames : RemoveNetwork(n)
    \/ Cleanup

SpecNet == InitNet /\ [][NextNet]_vars

(***************************************************************************)
(* The classes that are used on their own start from an orchestrator       *)
(* without services and a new NetworkManager.                              *)
(***************************************************************************)
Standalone ==
    /\ services = <<>>
    /\ dependencies = <<>>
    /\ health_check = <<>>
    /\ restart_policy = <<>>
    /\ command = <<>>
    /\ resolved = NotResolved
    /\ OrchInit
    /\ ports = <<>>
    /\ svc_networks = <<>>
    /\ bound = {}
    /\ net = NetworkManagerNew
    /\ calls = 0
    /\ lastCall = NoCall
    /\ NoIpLog

(***************************************************************************)
(* CgroupManager (ISOLATION/cgroup_manager.py).  A name is the sequence   *)
(* of its characters.                                                      *)
(***************************************************************************)
NameChars == {"/", ".", "_", "a"}

MaxNameLen == 4

CgroupNames == UNION {[1..n -> NameChars] : n \in 0..MaxNameLen}

\* str.replace('/', '_')
replace_slash(s) == [i \in 1..Len(s) |-> IF s[i] = "/" THEN "_" ELSE s[i]]

\* str.replace('..', '_'): the occurrences from the left, without overlap.
RECURSIVE replace_dotdot(_)
replace_dotdot(s) ==
    IF Len(s) < 2 THEN s
    ELSE IF s[1] = "." /\ s[2] = "."
    THEN <<"_">> \o replace_dotdot(SubSeq(s, 3, Len(s)))
    ELSE <<s[1]>> \o replace_dotdot(Tail(s))

\* _sanitize_name, lines 88-89: while sanitized.startswith('.').
RECURSIVE strip_dots(_)
strip_dots(s) ==
    IF s # <<>> /\ s[1] = "." THEN strip_dots(Tail(s)) ELSE s

\* The string "container".
DefaultCgroupName == <<"c", "o", "n", "t", "a", "i", "n", "e", "r">>

\* A sanitizer that keeps the leading dots.
sanitize_name_dotted(name) ==
    LET sanitized == replace_dotdot(replace_slash(name))
    IN  IF sanitized = <<>> THEN DefaultCgroupName ELSE sanitized

\* CgroupManager._sanitize_name
sanitize_name(name) ==
    LET sanitized == strip_dots(replace_dotdot(replace_slash(name)))
    IN  IF sanitized = <<>> THEN DefaultCgroupName ELSE sanitized

\* CgroupManager.__init__, lines 72-77.
CgroupManager(name) ==
    [given |-> name, name |-> sanitize_name(name), initialized |-> FALSE]

\* One CgroupManager is constructed.
CgroupManagerNew(name) ==
    /\ cgroup = NoCgroup
    /\ cgroup' = CgroupManager(name)
    /\ UNCHANGED <<host, iso, child, trace, miscVars>>
    /\ UNCHANGED <<cfgVars, resolved, orchVars, netCfgVars, netVars, ipVars>>

InitSanitize ==
    /\ Standalone
    /\ SysIdle

NextSanitize == \E name \in CgroupNames : CgroupManagerNew(name)

SpecSanitize == InitSanitize /\ [][NextSanitize]_vars

(***************************************************************************)
(* NamespaceManager (ISOLATION/namespace_manager.py).  A NamespaceType     *)
(* value is the set of its flags.                                          *)
(***************************************************************************)
NONE == {}

BASIC == {"MOUNT", "UTS", "IPC"}

STANDARD == {"MOUNT", "UTS", "IPC", "PID"}

FULL == {"MOUNT", "UTS", "IPC", "PID", "NET"}

\* The members of the enumeration, as `for ns_type in NamespaceType' may
\* visit them: the single flags, and NONE and the combinations as well.
NamespaceType ==
    {{f} : f \in {"MOUNT", "UTS", "IPC", "USER", "PID", "NET", "CGROUP"}}
        \cup {NONE, BASIC, STANDARD, FULL}

\* NamespaceManager.is_available
ns_is_available(h) == h.is_linux /\ h.libc

\* NamespaceManager._available_namespaces after __init__: a set of members.
available_namespaces(h) ==
    IF ~ns_is_available(h) THEN {}
    ELSE (IF h.user_ns_enabled THEN {{"USER"}} ELSE {})
         \cup (IF h.is_root
               THEN {{"MOUNT"}, {"UTS"}, {"IPC"}, {"PID"}, {"NET"}, {"CGROUP"}}
               ELSE IF h.user_ns_enabled
               THEN {{"MOUNT"}, {"UTS"}, {"IPC"}, {"PID"}}
               ELSE {})

\* A NamespaceManager that takes what was requested.
get_effective_requested(requested, h) ==
    IF ~ns_is_available(h) THEN NONE ELSE requested

\* NamespaceManager.get_effective_namespaces
get_effective_namespaces(requested, h) ==
    IF ~ns_is_available(h) THEN NONE
    ELSE UNION {ns_type \in NamespaceType :
                    /\ requested \cap ns_type # {}
                    /\ ns_type \in available_namespaces(h)}

(***************************************************************************)
(* CgroupManager.create and IsolatedRunner.                                *)
(***************************************************************************)
\* CgroupManager.is_available
cgroup_is_available(h) == h.is_linux /\ h.cgroup_v2

\* How a mkdir ends.
MkdirOutcomes == {"ok", "PermissionError", "OSError"}

\* What create() finds in the cgroup file system.
CgroupFs == [base_exists : BOOLEAN, mkdir_base : MkdirOutcomes, mkdir_cgroup : MkdirOutcomes]

\* CgroupManager.create: the manager afterwards, the value returned and
\* whether an exception left the method.
create(cg, h, fs) ==
    IF ~cgroup_is_available(h)
    THEN [cg |-> cg, created |-> FALSE, raised |-> FALSE]
    ELSE IF ~fs.base_exists /\ fs.mkdir_base = "PermissionError"
    THEN [cg |-> cg, created |-> FALSE, raised |-> FALSE]
    ELSE IF ~fs.base_exists /\ fs.mkdir_base = "OSError"
    THEN [cg |-> cg, created |-> FALSE, raised |-> TRUE]
    ELSE IF fs.mkdir_cgroup # "ok"
    THEN [cg |-> cg, created |-> FALSE, raised |-> FALSE]
    ELSE [cg |-> [cg EXCEPT !.initialized = TRUE], created |-> TRUE, raised |-> FALSE]

\* An apply_limits that does not look at the state of the manager.
apply_limits_unguarded(cg, written) == [returned |-> written, wrote |-> written]

\* CgroupManager.apply_limits: the value returned and whether a file of the
\* cgroup was written.  `written' says that some limit is configured and
\* that its file could be written.  (_cgroup_path is set whenever
\* _initialized is.)
apply_limits(cg, written) ==
    IF ~cg.initialized
    THEN [returned |-> FALSE, wrote |-> FALSE]
    ELSE [returned |-> written, wrote |-> written]

\* CgroupManager.add_process: the value returned and whether the pid was
\* written to cgroup.procs; write_ok says that the write can succeed.
add_process(cg, write_ok) ==
    IF ~cg.initialized
    THEN [returned |-> FALSE, wrote |-> FALSE]
    ELSE [returned |-> write_ok, wrote |-> write_ok]

\* CgroupManager.cleanup: the manager afterwards and the value returned;
\* rmdir_ok says that the directory can be removed.
cgroup_cleanup(cg, rmdir_ok) ==
    IF ~cg.initialized
    THEN [cg |-> cg, returned |-> TRUE]
    ELSE IF rmdir_ok
    THEN [cg |-> [cg EXCEPT !.initialized = FALSE], returned |-> TRUE]
    ELSE [cg |-> cg, returned |-> FALSE]

\* IsolatedRunner._should_use_full_isolation
should_use_full_isolation(r, h) ==
    IF ~ns_is_available(h) THEN FALSE
    ELSE get_effective_namespaces(r.namespaces, h) # NONE

\* A preexec function that leaves the child where it is.
preexec_attaches_never(add_to_cgroup, cg) == FALSE

\* The preexec function, lines 250-256: whether the child writes its pid to
\* cgroup.procs.
preexec_attaches(add_to_cgroup, cg) == add_to_cgroup /\ cg.initialized

\* _generate_isolation_wrapper, line 294: the flags the wrapper unshares.
wrapper_ns_flags(r) == r.namespaces

\* IsolatedRunner.run with a command that can be executed: create(),
\* apply_limits(), then Popen on one of the two paths.  Popen returns when
\* the child has run the preexec function and has called exec.
Run(fs, write_ok) ==
    /\ iso.launch = "none"
    /\ LET c == create(cgroup, host, fs)
           full == should_use_full_isolation(iso, host)
           attach == preexec_attaches(IF full THEN TRUE ELSE c.created, c.cg)
       IN  /\ cgroup' = c.cg
           /\ IF c.raised
              THEN /\ iso' = [iso EXCEPT !.launch = "raised"]
                   /\ trace' = <<"create">>
                   /\ UNCHANGED child
              ELSE /\ iso' = [iso EXCEPT
                                !.launch = IF full THEN "isolated" ELSE "basic",
                                !.process = "running",
                                !.isolation_active = IF full THEN TRUE ELSE c.created,
                                !.effective = get_effective_namespaces(iso.namespaces, host)]
                   /\ child' = [NoChild EXCEPT
                                !.state = "alive",
                                !.image = IF full THEN "wrapper" ELSE "target",
                                !.in_cgroup = attach /\ write_ok,
                                !.write_failed = attach /\ ~write_ok]
                   /\ trace' = <<"create">>
                                \o (IF c.created THEN <<"apply_limits">> ELSE <<>>)
                                \o <<"spawn">>
                                \o (IF attach THEN <<"add_process">> ELSE <<>>)
                                \o <<IF full THEN "exec_wrapper" ELSE "exec_target">>
    /\ UNCHANGED <<host, miscVars, cfgVars, resolved, orchVars, netCfgVars, netVars, ipVars>>

\* The wrapper process, lines 310-341: unshare, which may fail with a
\* warning, and the exec of the command.
WrapperExec(unshare_ok) ==
    /\ child.state = "alive"
    /\ child.image = "wrapper"
    /\ LET ns_flags == wrapper_ns_flags(iso)
       IN  /\ child' = [child EXCEPT
                          !.image = "target",
                          !.ns_flags = ns_flags,
                          !.unshared = IF ns_flags # {} /\ unshare_ok THEN ns_flags ELSE {}]
           /\ trace' = trace \o (IF ns_flags # {} THEN <<"unshare">> ELSE <<>>)
                             \o <<"exec_target">>
    /\ UNCHANGED <<cgroup, host, iso, miscVars, cfgVars, resolved, orchVars, netCfgVars, netVars, ipVars>>

\* The spawned process exits on its own.
ChildExit ==
    /\ child.state = "alive"
    /\ child' = [child EXCEPT !.state = "exited"]
    /\ UNCHANGED <<cgroup, host, iso, trace, miscVars, cfgVars, resolved, orchVars,
                   netCfgVars, netVars, ipVars>>

\* IsolatedRunner.stop: terminate() and wait(timeout), kill() and wait()
\* when the timeout expires, and _cleanup() in every case.  `raises' is an
\* exception of terminate() or wait() other than TimeoutExpired; the rmdir of
\* the cgroup may fail.
Stop(raises, rmdir_ok) ==
    /\ iso.process # "none"
    /\ child' = IF raises THEN child ELSE [child EXCEPT !.state = "exited"]
    /\ cgroup' = cgroup_cleanup(cgroup, rmdir_ok).cg
    /\ iso' = [iso EXCEPT !.process = "none", !.isolation_active = FALSE]
    /\ trace' = trace \o <<"cleanup">>
    /\ UNCHANGED <<host, miscVars, cfgVars, resolved, orchVars, netCfgVars, netVars, ipVars>>

\* The platforms: off Linux nothing is detected.
Hosts ==
    {h \in [is_linux : BOOLEAN, libc : BOOLEAN, is_root : BOOLEAN,
            user_ns_enabled : BOOLEAN, cgroup_v2 : BOOLEAN] :
        ~h.is_linux => h = NoHost}

\* IsolationConfig.namespaces
RequestedNamespaces == {NONE, {"UTS"}, {"USER", "NET"}, BASIC, FULL}

\* IsolatedRunner.__init__ on some platform.
InitLaunch ==
    /\ Standalone
    /\ host \in Hosts
    /\ cgroup = CgroupManager(<<"a">>)
    /\ \E ns \in RequestedNamespaces : iso = [NoRunner EXCEPT !.namespaces = ns]
    /\ child = NoChild
    /\ trace = <<>>
    /\ MiscIdle

NextLaunch ==
    \/ \E fs \in CgroupFs, write_ok \in BOOLEAN : Run(fs, write_ok)
    \/ \E unshare_ok \in BOOLEAN : WrapperExec(unshare_ok)
    \/ ChildExit
    \/ \E raises \in BOOLEAN, rmdir_ok \in BOOLEAN : Stop(raises, rmdir_ok)

SpecLaunch == InitLaunch /\ [][NextLaunch]_vars

(***************************************************************************)
(* SpecCgroup: the methods of one CgroupManager called in any order, on a  *)
(* platform with or without cgroup v2.  trace is the log of the calls:     *)
(* the method, whether the file system lets it succeed, the value returned *)
(* and whether a file of the cgroup was written.                           *)
(***************************************************************************)
MaxCgroupOps == 5

Logged(op, ok, returned, wrote) ==
    /\ Len(trace) < MaxCgroupOps
    /\ trace' = Append(trace, [op |-> op, ok |-> ok, returned |-> returned, wrote |-> wrote])
    /\ UNCHANGED <<host, iso, child, miscVars, cfgVars, resolved, orchVars,
                   netCfgVars, netVars, ipVars>>

Create(fs) ==
    LET c == create(cgroup, host, fs)
    IN  /\ cgroup' = c.cg
        /\ Logged("create", c.created, c.created, FALSE)

ApplyLimits(written) ==
    LET r == apply_limits(cgroup, written)
    IN  /\ UNCHANGED cgroup
        /\ Logged("apply_limits", written, r.returned, r.wrote)

AddProcess(write_ok) ==
    LET r == add_process(cgroup, write_ok)
    IN  /\ UNCHANGED cgroup
        /\ Logged("add_process", write_ok, r.returned, r.wrote)

CgroupCleanup(rmdir_ok) ==
    LET r == cgroup_cleanup(cgroup, rmdir_ok)
    IN  /\ cgroup' = r.cg
        /\ Logged("cleanup", rmdir_ok, r.returned, FALSE)

InitCgroup ==
    /\ Standalone
    /\ host \in {h \in Hosts : ~h.libc /\ ~h.is_root /\ ~h.user_ns_enabled}
    /\ cgroup = CgroupManager(<<"a">>)
    /\ iso = NoRunner
    /\ child = NoChild
    /\ trace = <<>>
    /\ MiscIdle

NextCgroup ==
    \/ \E fs \in CgroupFs : Create(fs)
    \/ \E written \in BOOLEAN : ApplyLimits(written)
    \/ \E write_ok \in BOOLEAN : AddProcess(write_ok)
    \/ \E rmdir_ok \in BOOLEAN : CgroupCleanup(rmdir_ok)

SpecCgroup == InitCgroup /\ [][NextCgroup]_vars

(***************************************************************************)
(* FilesystemIsolation.pivot_root (ISOLATION/filesystem_isolation.py).     *)
(* Each step of the method ends as the kernel decides: a Python call that  *)
(* fails raises, a libc function called through ctypes that fails returns  *)
(* -1 and raises nothing.                                                  *)
(***************************************************************************)
StepOutcomes == {"ok", "fails"}

\* The steps in call order: CDLL, put_old_path.mkdir, libc.mount,
\* libc.syscall(SYS_pivot_root), os.chdir, libc.umount2, os.rmdir.
PivotSteps ==
    [load : StepOutcomes, mkdir : StepOutcomes, mount : StepOutcomes, pivot : StepOutcomes,
     chdir : StepOutcomes, umount : StepOutcomes, rmdir : StepOutcomes]

\* FilesystemIsolation.is_available
fs_is_available(h) == h.is_linux /\ h.is_root

\* FilesystemIsolation.pivot_root: the value returned.  The values that
\* libc.mount and libc.umount2 return are not looked at, and the OSError of
\* os.rmdir is passed over.
pivot_root(h, steps) ==
    IF ~fs_is_available(h) THEN FALSE
    ELSE IF steps.load = "fails" \/ steps.mkdir = "fails" THEN FALSE
    ELSE IF steps.pivot = "fails" THEN FALSE
    ELSE IF steps.chdir = "fails" THEN FALSE
    ELSE TRUE

\* One pivot_root call on a new FilesystemIsolation; trace is the log of
\* the call.
PivotRoot(steps) ==
    /\ trace = <<>>
    /\ trace' = <<[op |-> "pivot_root", steps |-> steps, returned |-> pivot_root(host, steps)]>>
    /\ UNCHANGED <<cgroup, host, iso, child, miscVars, cfgVars, resolved, orchVars,
                   netCfgVars, netVars, ipVars>>

InitPivot ==
    /\ Standalone
    /\ host \in {h \in Hosts : ~h.user_ns_enabled /\ ~h.cgroup_v2}
    /\ cgroup = NoCgroup
    /\ iso = NoRunner
    /\ child = NoChild
    /\ trace = <<>>
    /\ MiscIdle

NextPivot == \E steps \in PivotSteps : PivotRoot(steps)

SpecPivot == InitPivot /\ [][NextPivot]_vars

(***************************************************************************)
(* VolumeManager (MANAGERS/volume_manager.py): the named volumes.  The     *)
(* time is the number of calls made so far.                                *)
(***************************************************************************)
\* Calls on the VolumeManager that the model follows.
MaxVolumeOps == 4

\* _save_index: what json.dump writes for each volume.
save_index(volumes) ==
    [n \in DOMAIN volumes |->
        [name |-> volumes[n].name, path |-> volumes[n].path, driver |-> volumes[n].driver,
         created_at |-> volumes[n].created_at, labels |-> volumes[n].labels]]

\* _load_index: NamedVolume(**vol_data) for each entry of the file, and no
\* volumes without a file.
load_index(has_index, index) ==
    IF ~has_index THEN <<>>
    ELSE [n \in DOMAIN index |->
            [name |-> index[n].name, path |-> index[n].path, driver |-> index[n].driver,
             created_at |-> index[n].created_at, labels |-> index[n].labels]]

\* A create_volume that does not look for the name.
create_volume_anew(volumes, name, driver, labels, now) ==
    LET vol_path == <<"volumes_root", name>>
        volume == [name |-> name, path |-> vol_path, driver |-> driver,
                   created_at |-> now, labels |-> labels]
    IN  [volumes |-> Put(volumes, name, volume), volume |-> volume, saved |-> TRUE]

\* VolumeManager.create_volume: the volumes afterwards, the volume returned
\* and whether the index was written.  vol_path is
\* os.path.join(self.volumes_root, name).
create_volume(volumes, name, driver, labels, now) ==
    IF name \in DOMAIN volumes
    THEN [volumes |-> volumes, volume |-> volumes[name], saved |-> FALSE]
    ELSE LET vol_path == <<"volumes_root", name>>
             volume == [name |-> name, path |-> vol_path, driver |-> driver,
                        created_at |-> now, labels |-> labels]
         IN  [volumes |-> Put(volumes, name, volume), volume |-> volume, saved |-> TRUE]

\* One create_volume call.
CreateVolume(name, driver, labels) ==
    /\ vol.clock < MaxVolumeOps
    /\ LET r == create_volume(vol.volumes, name, driver, labels, vol.clock + 1)
           index == IF r.saved THEN save_index(r.volumes) ELSE vol.index
           existed == name \in DOMAIN vol.volumes
       IN  vol' = [volumes |-> r.volumes,
                   has_index |-> vol.has_index \/ r.saved,
                   index |-> index,
                   clock |-> vol.clock + 1,
                   last |-> [name |-> name, driver |-> driver, existed |-> existed,
                             before |-> IF existed THEN vol.volumes[name] ELSE NoVolume,
                             returned |-> r.volume,
                             stored |-> r.volumes[name],
                             indexed |-> IF name \in DOMAIN index THEN index[name]
                                         ELSE NoVolume]]
    /\ UNCHANGED <<discovery, cgroup, host, iso, child, trace, cfgVars, resolved, orchVars,
                   netCfgVars, netVars, ipVars>>

\* One remove_volume call: without force a directory that is not empty
\* stays, and so does the volume.
RemoveVolume(name, force, empty) ==
    /\ vol.clock < MaxVolumeOps
    /\ LET removed == name \in DOMAIN vol.volumes /\ (force \/ empty)
           volumes == IF removed THEN Del(vol.volumes, name) ELSE vol.volumes
       IN  vol' = [vol EXCEPT !.volumes = volumes,
                              !.has_index = @ \/ removed,
                              !.index = IF removed THEN save_index(volumes) ELSE @,
                              !.clock = @ + 1]
    /\ UNCHANGED <<discovery, cgroup, host, iso, child, trace, cfgVars, resolved, orchVars,
                   netCfgVars, netVars, ipVars>>

\* VolumeManager.__init__ on the same directory: the index is read again.
Reopen ==
    /\ vol.clock < MaxVolumeOps
    /\ vol' = [vol EXCEPT !.volumes = load_index(vol.has_index, vol.index), !.clock = @ + 1]
    /\ UNCHANGED <<discovery, cgroup, host, iso, child, trace, cfgVars, resolved, orchVars,
                   netCfgVars, netVars, ipVars>>

InitVolumes ==
    /\ Standalone
    /\ SysIdle

NextVolumes ==
    \/ \E name \in {"data", "cache"}, driver \in {"local", "nfs"}, labels \in {{}, {"keep"}} :
          CreateVolume(name, driver, labels)
    \/ \E name \in {"data", "cache"}, force \in BOOLEAN, empty \in BOOLEAN :
          RemoveVolume(name, force, empty)
    \/ Reopen

SpecVolumes == InitVolumes /\ [][NextVolumes]_vars

(***************************************************************************)
(* NetworkManager.get_service_discovery_env.  The prefix of a name is      *)
(* computed on the sequence of its characters.                             *)
(***************************************************************************)
\* name.upper().replace('-', '_').replace('.', '_'), on the characters s of
\* the name.
prefix(name) ==
    LET s == CASE name = "my-db" -> <<"m", "y", "-", "d", "b">>
               [] name = "my_db" -> <<"m", "y", "_", "d", "b">>
               [] name = "web" -> <<"w", "e", "b">>
               [] name = "db" -> <<"d", "b">>
        upper(c) ==
            CASE c = "b" -> "B" [] c = "d" -> "D" [] c = "e" -> "E" [] c = "m" -> "M"
              [] c = "w" -> "W" [] c = "y" -> "Y" [] OTHER -> c
    IN  [i \in 1..Len(s) |-> IF upper(s[i]) \in {"-", "."} THEN "_" ELSE upper(s[i])]

\* get_service_discovery_env, lines 248-251: the host port of
\* list(d.keys())[0] as a string.  allocate_ports inserts the container ports
\* in the order of svc.ports, which lists them in increasing order.
first_port(d) ==
    LET first_key == CHOOSE k \in DOMAIN d : \A j \in DOMAIN d : k <= j
    IN  ToString(d[first_key])

\* get_service_discovery_env, lines 241-244.
discovery_host(nm, name) ==
    IF name \in DOMAIN nm.service_networks /\ nm.service_networks[name].ip_address # NoAddress
    THEN nm.service_networks[name].ip_address
    ELSE Loopback

\* get_service_discovery_env, lines 237-251: the loop from name i on.
RECURSIVE EnvLoop(_, _, _, _)
EnvLoop(nm, all_services, i, env) ==
    IF i > Len(all_services) THEN env
    ELSE LET name == all_services[i]
             with_host == Put(env, <<prefix(name), "_HOST">>, discovery_host(nm, name))
             with_port ==
                 IF name \in DOMAIN nm.service_ports /\ DOMAIN nm.service_ports[name] # {}
                 THEN Put(with_host, <<prefix(name), "_PORT">>,
                          first_port(nm.service_ports[name]))
                 ELSE with_host
         IN  EnvLoop(nm, all_services, i + 1, with_port)

\* NetworkManager.get_service_discovery_env
get_service_discovery_env(nm, all_services) == EnvLoop(nm, all_services, 1, <<>>)

\* One get_service_discovery_env call.
GetServiceDiscoveryEnv(all_services) ==
    /\ discovery' = [nm |-> net, names |-> all_services,
                     env |-> get_service_discovery_env(net, all_services)]
    /\ UNCHANGED <<vol, cgroup, host, iso, child, trace, cfgVars, resolved, orchVars,
                   netCfgVars, netVars, ipVars>>

(***************************************************************************)
(* SpecEnv: allocate_ports and get_service_discovery_env calls on a new    *)
(* NetworkManager, for two services whose names differ in one character,   *)
(* each with at most one container port.                                   *)
(***************************************************************************)
EnvServices == <<"my-db", "my_db">>

InitEnv ==
    /\ services = EnvServices
    /\ dependencies = [s \in Range(services) |-> <<>>]
    /\ health_check = [s \in Range(services) |-> NoHC]
    /\ restart_policy = [s \in Range(services) |-> DefaultPolicy]
    /\ command = [s \in Range(services) |-> TRUE]
    /\ resolved = NotResolved
    /\ OrchInit
    /\ ports \in [Range(services) -> {q \in PortConfigs : Len(q) <= 1}]
    /\ svc_networks = [s \in Range(services) |-> <<>>]
    /\ bound = {}
    /\ net = NetworkManagerNew
    /\ calls = 0
    /\ lastCall = NoCall
    /\ NoIpLog
    /\ SysIdle

NextEnv ==
    \/ \E s \in Range(services) : AllocatePorts(s)
    \/ \E all_services \in {services, <<services[1]>>, <<services[2]>>} :
          GetServiceDiscoveryEnv(all_services)

SpecEnv == InitEnv /\ [][NextEnv]_vars

(***************************************************************************)
(* Properties of resolve_order (SpecResolve).                              *)
(***************************************************************************)
Resolved == resolved # NotResolved

\* d is named by s's depends_on and is not a service of the config.
Dangling(s, d) == s \in Range(services) /\ d \in Range(dependencies[s]) \ Range(services)

\* C1: for a config whose in-config dependency graph has no cycle,
\* dangling depends_on names included, resolve_order returns every service
\* of the config exactly once, each after every service of the config it
\* depends on.
C1_ResolveOrderTopological ==
    (Resolved /\ ~HasCycle(services, dependencies)) =>
        /\ resolved.error = NoError
        /\ Len(resolved.ordered) = Len(services)
        /\ Range(resolved.ordered) = Range(services)
        /\ \A s, d \in Range(services) :
              DependsOn(services, dependencies, s, d) =>
                  IndexOf(resolved.ordered, d) < IndexOf(resolved.ordered, s)

\* C1 witness: a resolved acyclic config whose first service depends on
\* its second one and on a name that is not configured.
C1_Witness ==
    /\ Resolved
    /\ ~HasCycle(services, dependencies)
    /\ Len(services) = 2
    /\ DependsOn(services, dependencies, services[1], services[2])
    /\ \E d \in Names : Dangling(services[1], d)
    /\ resolved.ordered = <<services[2], services[1]>>

\* C2: for a config whose dependency graph has a cycle (a self-dependency
\* or a longer one), resolve_order returns no order: it fails, and the
\* error names a service that lies on a cycle.
C2_CycleNamed ==
    (Resolved /\ HasCycle(services, dependencies)) =>
        /\ resolved.error # NoError
        /\ resolved.error \in Range(services)
        /\ OnCycle(services, dependencies, resolved.error)

\* C2 witness: the traversal starts at a service that is on no cycle and
\* depends on one of two services that depend on each other; the error
\* names one of the two.
C2_Witness ==
    /\ Resolved
    /\ Len(services) = 3
    /\ ~OnCycle(services, dependencies, services[1])
    /\ DependsOn(services, dependencies, services[1], services[2])
    /\ DependsOn(services, dependencies, services[2], services[3])
    /\ DependsOn(services, dependencies, services[3], services[2])
    /\ resolved.error \in {services[2], services[3]}

(***************************************************************************)
(* Properties of up(), down(), ps() and the monitor (Spec).                *)
(***************************************************************************)
\* C3: up() launches the services one at a time, and when it calls the
\* launch of s the launch call of every configured dependency of s has
\* returned.
C3_SerialLaunchAfterDependencies ==
    /\ Cardinality(Range(upCalled) \ upReturned) <= 1
    /\ \A i, j \in 1..Len(upCalled) : i # j => upCalled[i] # upCalled[j]
    /\ \A i \in 1..Len(upCalled) : \A d \in Range(services) :
          DependsOn(services, dependencies, upCalled[i], d) =>
              /\ d \in upReturned
              /\ \E j \in 1..(i - 1) : upCalled[j] = d

\* C3 witness: db, first in the config, depends on web, and up() has
\* launched web and then called the launch of db.
C3_Witness ==
    /\ DependsOn(services, dependencies, "db", "web")
    /\ upCalled = <<"web", "db">>
    /\ pc = "up_starting"
    /\ runner["web"] = "alive"

\* C4: down() calls stop on the services in exactly the reverse of the
\* order in which up() launched them, once per service, and on no name
\* that is not a service of the config.
C4_StopOrderIsReverseOfStart ==
    /\ Len(stopLog) <= Len(upCalled)
    /\ \A i \in 1..Len(stopLog) : stopLog[i] = upCalled[Len(upCalled) + 1 - i]
    /\ Range(stopLog) \subseteq Range(services)
    /\ pc \in {"down_done", "ps_done"} => Len(stopLog) = Len(services)

\* C4 witness: down() has returned after stopping db and then web, which
\* db depends on.
C4_Witness ==
    /\ pc = "down_done"
    /\ DependsOn(services, dependencies, "db", "web")
    /\ stopLog = <<"db", "web">>

\* C5: when up() calls the launch of the next service after a service with
\* a health check, that service is healthy or the timeout
\* start_period + timeout * retries has elapsed.
C5_NextLaunchAfterHealthyOrTimeout ==
    (pc = "up_starting" /\ idx > 1 /\ health_check[order[idx - 1]].defined) =>
        \/ health[order[idx - 1]].status = "healthy"
        \/ waitElapsed >= WaitTimeout(health_check[order[idx - 1]])

\* C6: a service has at most one live OS process.
C6_AtMostOneLiveProcess == \A s \in Range(services) : Live(s) <= 1

\* The monitor is inside the stop/start sequence of its restart of s.
InRestartSequence(s) == suppc \in {"restart_stopping", "restart_start"} /\ Cur = s

\* C7: the stop/start sequence of a restart of a service on the monitor
\* thread never overlaps a stop or start of the same service on the main
\* thread.
C7_RestartPathsExclusive ==
    \A s \in Range(services) :
        ~(InRestartSequence(s) /\ pc \in {"down_stopping", "up_starting"} /\ order[idx] = s)

RestartCounts == [s \in Range(services) |-> health[s].restart_count]

\* C8: down() stops the monitor loop before it stops any service, and once
\* down() has called its first stop the monitor restarts and launches
\* nothing.
C8_NoRestartOnceDownStops ==
    [][/\ stopLog' # <<>> => ~running'
       /\ stopLog # <<>> => (launches' = launches /\ RestartCounts' = RestartCounts)]_vars

\* C9: ps() after down() has returned reports no service as "running".
C9_NothingRunningAfterDown ==
    pc = "ps_done" => \A s \in Range(services) : psResult[s] # "running"

\* Positions of the monitor thread at which it observes or restarts the
\* service Cur.
Observing ==
    {"check", "backoff", "restart_stop", "restart_stopping", "restart_start",
     "callback_dead", "callback_hc", "hc"}

\* C10 as claimed: the monitor observes or restarts a service only after
\* the launch call of up() for it has returned a process handle.
C10_ObservesOnlyLaunchedHandles ==
    (suppc \in Observing) => (Cur \in upReturned /\ runner[Cur] # "none")

\* C10 as amended: the monitor observes or restarts a service only after
\* the launch call of up() for it has returned, with a process handle if
\* the service has a command and with none if it has not.
C10_ObservesOnlyAfterLaunchReturned ==
    (suppc \in Observing) =>
        /\ Cur \in upReturned
        /\ command[Cur] <=> runner[Cur] # "none"

\* C10 witness: the monitor is about to restart web, which has a command
\* and whose process has exited, while down() has not been called.
C10_Witness ==
    /\ suppc = "restart_start"
    /\ Cur = "web"
    /\ command["web"]
    /\ runner["web"] \in {"exit0", "exitN"}
    /\ pc = "up_done"

(***************************************************************************)
(* Properties of the restart policy and the health states (SpecMonitor,   *)
(* Spec).                                                                  *)
(***************************************************************************)
\* Every process of s so far was launched by up() or by a restart that the
\* monitor counted, and none of them exited with status 0.
OnlyCountedLaunches(s) ==
    launches[s] = health[s].restart_count + 1 /\ runner[s] # "exit0"

\* C11: for a service with condition on-failure and max_retries = N > 0
\* whose command always exits non-zero, restart_count never exceeds N, and
\* once it is N the service is not launched again, neither by a restart
\* nor by the failure callback.
C11_NoLaunchAfterRetriesExhausted ==
    [][\A s \in Range(services) :
          (/\ restart_policy[s].condition = "on-failure"
           /\ restart_policy[s].max_retries > 0
           /\ health[s].restart_count = restart_policy[s].max_retries
           /\ OnlyCountedLaunches(s))
          => (/\ launches'[s] = launches[s]
              /\ health'[s].restart_count = health[s].restart_count)]_vars

\* C12: a process of a service with condition on-failure that exited with
\* status 0 is not relaunched, neither by a restart nor by the failure
\* callback.
C12_ExitZeroNotRelaunched ==
    [][\A s \in Range(services) :
          (restart_policy[s].condition = "on-failure" /\ runner[s] = "exit0")
          => launches'[s] = launches[s]]_vars

\* C13: a service with condition no is launched at most once, and by up().
C13_NoPolicyNeverRelaunched ==
    \A s \in Range(services) :
        restart_policy[s].condition = "no" =>
            /\ launches[s] <= 1
            /\ launches[s] = 1 => s \in upReturned

\* C13 witness: web has condition no and a health check; its check has
\* failed, its process has exited non-zero and the monitor has finished
\* the pass that found it so, and web has still been launched once.
C13_Witness ==
    /\ restart_policy["web"].condition = "no"
    /\ health_check["web"].defined
    /\ health["web"].failing_streak > 0
    /\ runner["web"] = "exitN"
    /\ health["web"].status = "unhealthy"
    /\ suppc = "sleep"
    /\ launches["web"] = 1

\* The start period of s has not elapsed since the monitor's first pass,
\* in which the start time of s is recorded.
InGracePeriod(s) ==
    /\ health_check[s].defined
    /\ suppc # "off"
    /\ monClock < health_check[s].start_period

\* C14 as claimed: during the start period of a service with a health
\* check its status is neither healthy nor unhealthy.
C14_GraceNeverLeavesStarting ==
    \A s \in Range(services) :
        InGracePeriod(s) => health[s].status \notin {"healthy", "unhealthy"}

\* C14 as amended: during the start period of a service with a health
\* check, every update of the health record of the service made while its
\* process is running sets the status to starting.
C14_RunningStaysStartingInGrace ==
    [][\A s \in Range(services) :
          (InGracePeriod(s) /\ is_running(runner[s]) /\ health'[s] # health[s])
          => health'[s].status = "starting"]_vars

\* C14 witness: the second pass of the monitor, five seconds after the
\* first, has found web running within its start period of six seconds.
C14_Witness ==
    /\ InGracePeriod("web")
    /\ current_time > 0
    /\ suppc = "sleep"
    /\ runner["web"] = "alive"
    /\ health["web"].status = "starting"

\* C15: a failed health check that leaves failing_streak below retries
\* does not make the status unhealthy.
C15_UnhealthyOnlyAtRetries ==
    [][\A s \in Range(services) :
          (/\ suppc = "hc"
           /\ Cur = s
           /\ health'[s].failing_streak = health[s].failing_streak + 1
           /\ health'[s].failing_streak < health_check[s].retries)
          => health'[s].status # "unhealthy"]_vars

\* C16: while the stored delay of a service has not been reset, the first
\* completed restart follows a sleep of policy.delay, or of 1 when
\* policy.delay is not positive, and every later one follows a sleep of
\* twice the previous one, or of 300 when that is less.
C16_BackoffDoubles ==
    \A s \in Range(services) :
        ~backoffLog[s].reset =>
            LET q == backoffLog[s].sleeps
                d == restart_policy[s].delay
            IN  /\ Len(q) = health[s].restart_count
                /\ Len(q) >= 1 => q[1] = (IF d > 0 THEN d ELSE 1)
                /\ \A i \in 2..Len(q) :
                      q[i] = (IF 2 * q[i - 1] < 300 THEN 2 * q[i - 1] ELSE 300)

\* C16 witness: two restarts of web, whose policy.delay is 200, have
\* completed after sleeps of 200 and 300.
C16_Witness ==
    /\ restart_policy["web"].delay = 200
    /\ backoffLog["web"] = [reset |-> FALSE, sleeps |-> <<200, 300>>]
    /\ health["web"].restart_count = 2

\* C17: the delay slept before a restart is at most 300.
C17_SleepAtMostCap == suppc = "backoff" => current_delay <= 300

(***************************************************************************)
(* Properties of the port tables (SpecPorts).                              *)
(***************************************************************************)
\* The host ports in the port mappings of service s.
HostPortsOf(s) ==
    IF s \in DOMAIN net.service_ports
    THEN {net.service_ports[s][c] : c \in DOMAIN net.service_ports[s]}
    ELSE {}

\* C18: no host port is in the port mappings of two different services.
C18_HostPortOfOneService ==
    \A s1, s2 \in Range(services) :
        s1 # s2 => HostPortsOf(s1) \cap HostPortsOf(s2) = {}

\* The step is an allocate_ports call for s that returns its mappings.
AllocatedStep(s) ==
    calls' = calls + 1 /\ lastCall'.service = s /\ lastCall'.error = NoPortError

\* C19: the host port that an allocate_ports call maps to a container port
\* declared without host port is not recorded, when the call is made, as
\* allocated to another service.
C19_DynamicPortNotRecorded ==
    [][\A s \in Range(services) :
          AllocatedStep(s) =>
              \A i \in 1..Len(ports[s]) :
                  ~ports[s][i].explicit =>
                      net'.service_ports[s][ports[s][i].container] \notin
                          {p \in DOMAIN net.host_port_to_service :
                              net.host_port_to_service[p] # s}]_vars

\* The items of s that request an explicit host port on which a bind
\* fails.
BusyRequests(s) ==
    {i \in 1..Len(ports[s]) : ports[s][i].explicit /\ ports[s][i].host \in bound}

\* C20: an allocate_ports call for a service that requests an explicit
\* host port which is not free fails with an error that names the service
\* and such a port, and a container port declared with an explicit host
\* port is never mapped to another host port.
C20_ExplicitPortInUseFails ==
    /\ \A s \in Range(services) :
          (lastCall.service = s /\ BusyRequests(s) # {}) =>
              /\ lastCall.error.service = s
              /\ \E i \in BusyRequests(s) : lastCall.error.port = ports[s][i].host
    /\ \A s \in DOMAIN net.service_ports : \A i \in 1..Len(ports[s]) :
          ports[s][i].explicit =>
              net.service_ports[s][ports[s][i].container] = ports[s][i].host

\* C20 witness: after the ports of db have been allocated, the call for
\* web, whose first container port has no host port and whose second one
\* requests a host port held by another process, has failed naming web and
\* that port.
C20_Witness ==
    /\ "db" \in DOMAIN net.service_ports
    /\ "web" \notin DOMAIN net.service_ports
    /\ Len(ports["web"]) = 2
    /\ ~ports["web"][1].explicit
    /\ BusyRequests("web") = {2}
    /\ lastCall = [service |-> "web",
                   error |-> [port |-> ports["web"][2].host, service |-> "web"]]

(***************************************************************************)
(* Properties of the network calls (SpecNet).                              *)
(***************************************************************************)

\* C21: after any sequence of create_network, connect_service,
\* remove_network and cleanup calls, the address connect_service returns is
\* never the gateway of the network it was allocated from.
C21_GatewayNeverReturned ==
    lastIp.ip # NoAddress => lastIp.ip # lastIp.gateway

\* A network whose gateway is the first address of the scan, and a
\* connect_service call that returned the address after it.
C21_Witness ==
    /\ lastIp.gateway = <<10, 0, 0, 2>>
    /\ lastIp.ip = <<10, 0, 0, 3>>

\* C22 as stated: connect_service never returns an address it has already
\* returned from the same network while that allocation is live, whatever
\* the network.
C22_NoAddressTwice ==
    ~lastIp.again

\* C22: an address of a network's subnet is never returned twice while the
\* first allocation is live; only the loopback address, which stands in for
\* a network without a subnet or with none left, is returned again.
C22_PoolAddressOnce ==
    lastIp.again => lastIp.ip = Loopback

\* Two live allocations from one subnet: the second call returned the
\* second address while the first was still allocated.
C22_Witness ==
    /\ lastIp.ip = <<10, 0, 0, 3>>
    /\ lastIp.network \in DOMAIN issued
    /\ <<10, 0, 0, 2>> \in issued[lastIp.network]
    /\ ~lastIp.again

(***************************************************************************)
(* Properties of the cgroup name (SpecSanitize).                           *)
(***************************************************************************)

\* C28: whatever name a CgroupManager is given, the name it keeps for its
\* cgroup is not empty, contains no '/' and does not begin with '.'.
C28_SanitizedName ==
    cgroup # NoCgroup =>
        /\ cgroup.name # <<>>
        /\ \A i \in 1..Len(cgroup.name) : cgroup.name[i] # "/"
        /\ cgroup.name[1] # "."

\* A name that begins with a dot and contains a slash, and what is kept of
\* it.
C28_Witness ==
    /\ cgroup.given = <<".", "/", ".">>
    /\ cgroup.name = <<"_", ".">>

(***************************************************************************)
(* Properties of the isolated launch (SpecLaunch).                         *)
(***************************************************************************)
Launched == iso.launch \in {"basic", "isolated"}

\* The position of the first step `step' in the launch, or 0.
Pos(step) ==
    IF step \in Range(trace)
    THEN CHOOSE i \in 1..Len(trace) :
            trace[i] = step /\ \A j \in 1..(i - 1) : trace[j] # step
    ELSE 0

\* Where both steps were made, a was made before b.
Before(a, b) == (Pos(a) > 0 /\ Pos(b) > 0) => Pos(a) < Pos(b)

\* C23: whatever namespace, cgroup or mount capability is missing or
\* failing, run() does not end with an exception: it spawns the process.
C23_LaunchNeverRefused ==
    iso.launch # "raised"

\* C24: the set get_effective_namespaces returns is the intersection of the
\* requested set with the set of the detected namespaces, and it is empty
\* when namespace support is unavailable.
C24_EffectiveIsIntersection ==
    Launched =>
        /\ iso.effective = iso.namespaces \cap UNION available_namespaces(host)
        /\ ~ns_is_available(host) => iso.effective = {}

\* More was requested than was detected: the network namespace is left out.
C24_Witness ==
    /\ Launched
    /\ iso.namespaces = FULL
    /\ iso.effective = STANDARD

\* C25: on the full-isolation path the flags that the wrapper passes to
\* unshare are the effective set: no namespace that was not detected is
\* among them.
C25_UnshareFlagsAreEffective ==
    (iso.launch = "isolated" /\ "unshare" \in Range(trace)) =>
        child.ns_flags = iso.effective

\* C27 as stated: the cgroup is created and its limits are applied before the
\* process is spawned, and when the cgroup was created the child is in it
\* when the command is executed, on both paths.
C27_InCgroupBeforeTarget ==
    /\ Launched => (Pos("create") > 0 /\ Before("create", "spawn"))
    /\ Before("apply_limits", "spawn")
    /\ (cgroup.initialized /\ child.image = "target") => child.in_cgroup

\* C27: the cgroup is created and its limits are applied before the process
\* is spawned, and when the cgroup was created the child writes its pid to
\* cgroup.procs before the command is executed, on both paths; the child is
\* in the cgroup then unless that write failed.
C27_AttachBeforeTarget ==
    /\ Launched => (Pos("create") > 0 /\ Before("create", "spawn"))
    /\ Before("apply_limits", "spawn")
    /\ ("apply_limits" \in Range(trace) /\ child.image = "target") =>
            /\ Pos("apply_limits") < Pos("spawn")
            /\ Pos("spawn") < Pos("add_process")
            /\ Pos("add_process") < Pos("exec_target")
            /\ child.in_cgroup \/ child.write_failed

\* A launch on the full-isolation path with a cgroup: the child is attached
\* before the wrapper runs, and the wrapper executes the command.
C27_Witness ==
    /\ trace = <<"create", "apply_limits", "spawn", "add_process", "exec_wrapper",
                 "unshare", "exec_target">>
    /\ child.in_cgroup

(***************************************************************************)
(* Properties of ProcessRunner.stop (Spec).                                *)
(***************************************************************************)

\* C26: when stop() has returned, the process it stopped has exited: after
\* the kill signal stop() waits for the exit.
C26_StopWaitsForExit ==
    \A i \in 1..Len(stopLog) :
        (pc # "down_stopping" \/ i < Len(stopLog)) => runner[stopLog[i]] # "killed"

(***************************************************************************)
(* Properties of the named volumes (SpecVolumes).                          *)
(***************************************************************************)

\* C29: a create_volume call for a name that the manager already has returns
\* a volume with the path of the existing one and leaves the name's entry
\* in the index file, and the stored volume, as they were: same driver,
\* labels and creation time.
C29_CreateVolumeIdempotent ==
    vol.last.existed =>
        /\ vol.last.returned.path = vol.last.before.path
        /\ vol.last.stored = vol.last.before
        /\ vol.last.indexed # NoVolume
        /\ vol.last.indexed.driver = vol.last.before.driver
        /\ vol.last.indexed.labels = vol.last.before.labels
        /\ vol.last.indexed.created_at = vol.last.before.created_at

\* A second create_volume call for the same name, later and with another
\* driver.
C29_Witness ==
    /\ vol.last.existed
    /\ vol.last.driver = "local"
    /\ vol.last.before.driver = "nfs"
    /\ vol.last.before.created_at < vol.clock

(***************************************************************************)
(* Properties of the discovery environment (SpecEnv).                      *)
(***************************************************************************)

\* C30: for every name given, the dict has the entry <NAME>_HOST with the
\* address allocated to the service, or the loopback address if it has
\* none, and it has the entry <NAME>_PORT exactly when the service has a
\* port mapping, with the host port of its first container port.
C30_EnvEntries ==
    \A i \in 1..Len(discovery.names) :
        LET name == discovery.names[i]
            nm == discovery.nm
            env == discovery.env
            mapped == name \in DOMAIN nm.service_ports /\ DOMAIN nm.service_ports[name] # {}
        IN  /\ <<prefix(name), "_HOST">> \in DOMAIN env
            /\ env[<<prefix(name), "_HOST">>] = discovery_host(nm, name)
            /\ <<prefix(name), "_PORT">> \in DOMAIN env <=> mapped
            /\ mapped => env[<<prefix(name), "_PORT">>] = first_port(nm.service_ports[name])

(***************************************************************************)
(* Properties of the health checks (SpecMonitor).                          *)
(***************************************************************************)

\* C31: a health check that succeeds sets the status to HEALTHY, the
\* failing streak to 0 and the stored restart delay to 0; a check that fails
\* adds one to the failing streak; nothing else changes the streak, and it
\* is never negative.
C31_SuccessResets ==
    [][/\ Sup_HealthChecked(TRUE) =>
            /\ health'[Cur].status = "healthy"
            /\ health'[Cur].failing_streak = 0
            /\ Cur \in DOMAIN restart_delays'
            /\ restart_delays'[Cur] = 0
       /\ Sup_HealthChecked(FALSE) =>
            health'[Cur].failing_streak = health[Cur].failing_streak + 1
       /\ \A s \in Range(services) :
            /\ health'[s].failing_streak >= 0
            /\ health'[s].failing_streak # health[s].failing_streak =>
                    /\ suppc = "hc"
                    /\ s = Cur
                    /\ health'[s].failing_streak \in {0, health[s].failing_streak + 1}]_vars

\* A check succeeds after failures and after a restart has left a delay.
C31_Witness ==
    /\ health["web"].status = "healthy"
    /\ health["web"].failing_streak = 0
    /\ health["web"].restart_count > 0
    /\ "web" \in DOMAIN restart_delays
    /\ restart_delays["web"] = 0

\* C32: the failure callback is called for a failed health check on
\* exactly the passes in which the check of the service, found running in
\* that pass, fails and the failing streak, the failure included, is at
\* least retries.
C32_CallbackAtEveryFailurePastRetries ==
    [][/\ Sup_HealthChecked(FALSE) =>
            (suppc' = "callback_hc"
                <=> health'[Cur].failing_streak >= health_check[Cur].retries)
       /\ (suppc' = "callback_hc" /\ suppc # "callback_hc") =>
            /\ suppc = "hc"
            /\ health'[Cur].failing_streak = health[Cur].failing_streak + 1
            /\ health'[Cur].failing_streak >= health_check[Cur].retries]_vars

\* The callback is called again in the pass after the one that reached
\* retries.
C32_Witness ==
    /\ suppc = "callback_hc"
    /\ health_check["web"].retries = 1
    /\ health["web"].failing_streak = 2

(***************************************************************************)
(* Properties of reset_health (SpecReset).                                 *)
(***************************************************************************)
\* The record and the delay that reset_health leaves.
ResetRecord(s) ==
    /\ health[s] = [status |-> "none", failing_streak |-> 0, restart_count |-> 0,
                     last_restart |-> 0]
    /\ s \in DOMAIN restart_delays
    /\ restart_delays[s] = 0

\* C33: reset_health(name) leaves status NONE, failing streak 0, restart
\* count 0 and no delay, and when it is called while the pass of the monitor
\* is at the same service, nothing that the pass does for the service
\* afterwards, from what it read before the reset, changes the record or the
\* delay.
C33_ResetNotLost ==
    [][/\ \A s \in Range(services) : ResetHealth(s) => ResetRecord(s)'
       /\ (held # Attached /\ suppc \in MidService) => ResetRecord(Cur)']_vars

(***************************************************************************)
(* Properties of the CgroupManager (SpecCgroup).                           *)
(***************************************************************************)
\* The log up to call n says that the cgroup exists: a create() has
\* returned True, and no cleanup() has returned True since.
CreatedAfter(n) ==
    \E i \in 1..n :
        /\ trace[i].op = "create" /\ trace[i].returned
        /\ \A j \in (i + 1)..n : ~(trace[j].op = "cleanup" /\ trace[j].returned)

\* C34: the manager is initialized exactly while a create() has succeeded
\* and no cleanup() has succeeded since, so that a failed cleanup() leaves
\* it created; apply_limits() and add_process() return False and write
\* nothing outside that state, and cleanup() is a successful no-op there;
\* inside it they do what the file system allows.
C34_CgroupLifecycle ==
    /\ cgroup.initialized <=> CreatedAfter(Len(trace))
    /\ \A i \in 1..Len(trace) :
          LET c == trace[i] IN
          /\ c.op \in {"apply_limits", "add_process"} =>
                IF CreatedAfter(i - 1)
                THEN c.returned = c.ok /\ c.wrote = c.ok
                ELSE ~c.returned /\ ~c.wrote
          /\ c.op = "cleanup" => (c.returned <=> (~CreatedAfter(i - 1) \/ c.ok))

\* A cgroup is created, a cleanup fails, a process is added, a cleanup
\* succeeds, and the next add_process is refused.
C34_Witness ==
    /\ Len(trace) = 5
    /\ trace[1].op = "create" /\ trace[1].returned
    /\ trace[2].op = "cleanup" /\ ~trace[2].returned
    /\ trace[3].op = "add_process" /\ trace[3].returned
    /\ trace[4].op = "cleanup" /\ trace[4].returned
    /\ trace[5].op = "add_process" /\ trace[5].ok /\ ~trace[5].returned
    /\ ~cgroup.initialized

(***************************************************************************)
(* Properties of pivot_root (SpecPivot).                                   *)
(***************************************************************************)
\* C35: pivot_root returns True only if the bind mount of the new root on
\* itself, the pivot_root system call, the change of directory and the
\* detaching unmount of the old root have all succeeded.
C35_PivotRootAllOrNothing ==
    \A i \in 1..Len(trace) :
        trace[i].returned =>
            /\ trace[i].steps.mount = "ok"
            /\ trace[i].steps.pivot = "ok"
            /\ trace[i].steps.chdir = "ok"
            /\ trace[i].steps.umount = "ok"

(***************************************************************************)
(* Properties of the port tables (SpecPorts).                              *)
(***************************************************************************)
\* C36: host_port_to_service maps a host port to a service exactly when
\* service_ports maps some container port of that service to the host
\* port.
C36_PortTablesAgree ==
    \A p \in HostPorts, s \in Range(services) :
        (p \in DOMAIN net.host_port_to_service /\ net.host_port_to_service[p] = s)
            <=> /\ s \in DOMAIN net.service_ports
                /\ \E c \in DOMAIN net.service_ports[s] : net.service_ports[s][c] = p

(***************************************************************************)
(* Properties of the backoff after a reset (SpecMonitor, SpecReset).       *)
(***************************************************************************)
\* C37: after _restart_delays[name] has been reset, by a successful health
\* check or by reset_health, the first restart is preceded by a sleep of
\* the base delay, and each later one by a sleep of twice the delay of the
\* one before, up to the cap.
C37_BackoffRestartsAfterReset ==
    \A s \in Range(services) :
        backoffLog[s].reset =>
            LET q == backoffLog[s].sleeps
            IN  \A i \in 1..Len(q) :
                    q[i] = IF i = 1 THEN base_delay(restart_policy[s])
                           ELSE NextDelay(q[i - 1])

(***************************************************************************)
(* Properties of a restart that fails (SpecMonitor).                       *)
(***************************************************************************)
\* C38: when manager.stop() or manager.start() raises in a restart of the
\* monitor, restart_count, last_restart and the stored delay stay as they
\* are and the pass goes on; restart_count changes only at the end of a
\* restart whose stop and start have returned, and then it grows by one.
C38_FailedRestartCountsNothing ==
    [][/\ (Sup_RestartStopRaises \/ Sup_RestartRaises) =>
            /\ health'[Cur].restart_count = health[Cur].restart_count
            /\ health'[Cur].last_restart = health[Cur].last_restart
            /\ restart_delays' = restart_delays
            /\ suppc' \in {"check", "sleep"}
       /\ Sup_RestartStart => health'[Cur].restart_count = health[Cur].restart_count + 1
       /\ \A s \in Range(services) :
            health'[s].restart_count # health[s].restart_count =>
                /\ suppc = "restart_start" /\ s = Cur
                /\ health'[s].restart_count = health[s].restart_count + 1]_vars

\* A restart of web has completed after a sleep of 200, and a second one,
\* after a sleep of 300, has failed: the count and the stored delay are
\* those of the first, and the monitor is in its interval sleep.
C38_Witness ==
    /\ health["web"].restart_count = 1
    /\ health["web"].last_restart = 1
    /\ launches["web"] = 2
    /\ runner["web"] = "exitN"
    /\ health["web"].status = "unhealthy"
    /\ suppc = "sleep"
    /\ restart_policy["web"].delay = 200
    /\ restart_delays["web"] = 300
    /\ current_delay = 300

(***************************************************************************)
(* Properties of the monitor loop (Spec).                                  *)
(***************************************************************************)
\* C39: while the monitor has not been stopped its thread is in the loop,
\* at some service of a pass or between two passes, whatever went wrong
\* with a service: every service is reached again in a later pass.
C39_MonitorLoopSurvives ==
    running => suppc \in {"loop", "check", "sleep"} \cup MidService

(***************************************************************************)
(* Properties of the address range (SpecNet).                              *)
(***************************************************************************)
\* C40: an address that connect_service has taken from the subnet of a
\* network is the network address plus an offset from 1 to
\* 2^(32 - prefix) - 2: it is neither the network address nor the
\* broadcast address.
C40_AddressInsideSubnet ==
    (/\ lastIp.ip \notin {NoAddress, Loopback}
     /\ lastIp.network \in DOMAIN net.networks
     /\ net.networks[lastIp.network].subnet.defined)
        => LET subnet == net.networks[lastIp.network].subnet
           IN  \E off \in 1..(Pow2(32 - subnet.prefix) - 2) :
                    lastIp.ip = AddrPlus(subnet.base, off)

====
